---- MODULE Spec2Model ----
(***************************************************************************)
(* django-restumize: the request path Api.wrap_view.wrapper ->             *)
(* BaseHandler._view -> BaseHandler._dispatch, with format negotiation,    *)
(* serialization and the error path (_handle_500).                         *)
(*                                                                         *)
(* One request is followed from the wrapper's entry to the value the       *)
(* wrapper gives back to its caller (a response, or an exception that      *)
(* leaves the wrapper).  Everything the code reads from its environment    *)
(* (request attributes, settings, resource configuration, the results of   *)
(* the pluggable backends) is bound by the step that reads it first and    *)
(* keeps that value for the rest of the request; before that step the      *)
(* variable holds Unread.                                                  *)
(***************************************************************************)
EXTENDS Integers, Sequences, FiniteSets, TLC

\* Python's None, and the marker of an input the code has not read yet.
None == "None"
Unread == "Unread"

\* ------------------------------------------------------------------ bounds
\* longest allowed_methods list that is enumerated
MaxAllowed == 2

\* ------------------------------------------------------- input alphabets
\* request.method as sent by the client
Methods == {"GET", "get", "PUT", "POST", "HEAD", "OPTIONS", "Options"}
\* entries of Meta.allowed_methods (lowercase by the code's convention)
AllowedVerbs == {"get", "put", "head", "options"}
\* Meta.allowed_methods: a list, or NoneList when the attribute is None
NoneList == <<None>>
UnreadList == <<Unread>>
AllowedLists ==
  {l \in UNION {[1..k -> AllowedVerbs] : k \in 0..MaxAllowed} :
     \A i, j \in 1..Len(l) : i # j => l[i] # l[j]} \cup {NoneList}
\* the `view` argument of wrap_view
ViewNames == {"view", "_view"}
\* ?format=, ?callback= and the Accept header
FormatParams == {None, "json", "jsonp", "yaml"}
CallbackParams == {None, "cb", "bad()"}
AcceptHeaders == {None, "*/*", "application/json", "text/html", "text/javascript"}
DefaultFormats == {"application/json", "application/xml"}
RemoteAddrs == {None, "10.0.0.1"}
RemoteHosts == {None, "example.org"}

\* --------------------------------------------------------- string helpers
\* str.lower on the verbs that occur
Lower(s) ==
  CASE s \in {"GET", "get"} -> "get"
    [] s \in {"PUT", "put"} -> "put"
    [] s \in {"POST", "post"} -> "post"
    [] s \in {"HEAD", "head"} -> "head"
    [] s \in {"OPTIONS", "Options", "options"} -> "options"
    [] OTHER -> s

\* str.upper on the verbs that occur
Upper(s) ==
  CASE s \in {"GET", "get"} -> "GET"
    [] s \in {"PUT", "put"} -> "PUT"
    [] s \in {"POST", "post"} -> "POST"
    [] s \in {"HEAD", "head"} -> "HEAD"
    [] s \in {"OPTIONS", "Options", "options"} -> "OPTIONS"
    [] OTHER -> s

RECURSIVE Join(_)
\* ','.join(seq)
Join(seq) ==
  IF seq = <<>> THEN ""
  ELSE IF Len(seq) = 1 THEN seq[1]
  ELSE seq[1] \o "," \o Join(Tail(seq))

\* map(str.upper, allowed)
MapUpper(seq) == [i \in 1..Len(seq) |-> Upper(seq[i])]

\* `x in list`
InList(x, seq) == \E i \in 1..Len(seq) : seq[i] = x

\* -------------------------------------------------------------- responses
\* body of a response: a plain text, or the serializer's output for `data`
\* in `format` with the JSONP callback `callback`
TextBody(text) ==
  [text |-> text, payload |-> None, error |-> None, traceback |-> None,
   format |-> None, callback |-> None]

\* django.http.HttpResponse(content, content_type=...) and its subclasses
NewResponse(class, body, ctype) ==
  [class |-> class, content |-> body, content_type |-> ctype,
   Allow |-> None, CacheControl |-> None]

DefaultContentType == "text/html; charset=utf-8"
NoResponse == NewResponse(None, TextBody(None), None)

\* status code of each response class
StatusOf(class) ==
  CASE class = "HttpResponse" -> 200
    [] class = "HttpNoContent" -> 204
    [] class = "HttpBadRequest" -> 400
    [] class = "HttpUnauthorized" -> 401
    [] class = "HttpResponseNotFound" -> 404
    [] class = "HttpMethodNotAllowed" -> 405
    [] class = "HttpTooManyRequests" -> 429
    [] class = "HttpApplicationError" -> 500
    [] OTHER -> 0

Status(resp) == StatusOf(resp.class)

\* response['Allow'] = allows
SetAllow(resp, allows) == [resp EXCEPT !.Allow = allows]

\* -------------------------------------------------------------- exceptions
NoExc == [type |-> None, has_response |-> FALSE, response |-> NoResponse, msg |-> None]

\* ImmediateHttpResponse(response=...)
ImmediateHttpResponse(resp) ==
  [type |-> "ImmediateHttpResponse", has_response |-> TRUE, response |-> resp, msg |-> ""]

\* any exception that carries no `response` attribute
PlainExc(type, msg) ==
  [type |-> type, has_response |-> FALSE, response |-> NoResponse, msg |-> msg]

\* ------------------------------------------------------------ method check
\* _method_check with the OPTIONS test placed after the allowed-verbs test
_method_check_allowed_first(method, allowed) ==
  LET allowed_ == IF allowed = NoneList THEN <<>> ELSE allowed
      request_method == Lower(method)
      allows == Join(MapUpper(allowed_))
  IN IF InList(request_method, allowed_)
       THEN [raises |-> NoExc, value |-> request_method]
     ELSE IF request_method = "options"
       THEN [raises |-> ImmediateHttpResponse(
                          SetAllow(NewResponse("HttpResponse", TextBody(allows),
                                               DefaultContentType), allows)),
             value |-> None]
     ELSE [raises |-> ImmediateHttpResponse(
                        SetAllow(NewResponse("HttpMethodNotAllowed", TextBody(allows),
                                             DefaultContentType), allows)),
           value |-> None]

\* _method_check that joins the allowed verbs without uppercasing them
_method_check_no_upper(method, allowed) ==
  LET allowed_ == IF allowed = NoneList THEN <<>> ELSE allowed
      request_method == Lower(method)
      allows == Join(allowed_)
  IN IF request_method = "options"
       THEN [raises |-> ImmediateHttpResponse(
                          SetAllow(NewResponse("HttpResponse", TextBody(allows),
                                               DefaultContentType), allows)),
             value |-> None]
     ELSE IF ~InList(request_method, allowed_)
       THEN [raises |-> ImmediateHttpResponse(
                          SetAllow(NewResponse("HttpMethodNotAllowed", TextBody(allows),
                                               DefaultContentType), allows)),
             value |-> None]
     ELSE [raises |-> NoExc, value |-> request_method]

\* BaseHandler._method_check: the exception it raises (NoExc: none) and the
\* value it returns
_method_check(method, allowed) ==
  LET allowed_ == IF allowed = NoneList THEN <<>> ELSE allowed
      request_method == Lower(method)
      allows == Join(MapUpper(allowed_))
  IN IF request_method = "options"
       THEN [raises |-> ImmediateHttpResponse(
                          SetAllow(NewResponse("HttpResponse", TextBody(allows),
                                               DefaultContentType), allows)),
             value |-> None]
     ELSE IF ~InList(request_method, allowed_)
       THEN [raises |-> ImmediateHttpResponse(
                          SetAllow(NewResponse("HttpMethodNotAllowed", TextBody(allows),
                                               DefaultContentType), allows)),
             value |-> None]
     ELSE [raises |-> NoExc, value |-> request_method]

\* verbs BaseHandler implements itself (each raises a bare 405)
BaseVerbs == {"get", "post", "put", "delete", "patch"}

\* --------------------------------------------------------------- backends
\* what is_authenticated / is_authorized may return: True, False, None, a
\* truthy value that is not True, or an HttpResponse of the backend's own
BackendResults == {"True", "False", "None", "1", "HttpResponse"}

\* the response object a backend returns instead of a boolean
BackendResponse(who) ==
  NewResponse("HttpResponse", TextBody(who), DefaultContentType)

\* _is_authenticated testing the result's truth value instead of `is True`
_is_authenticated_truthy(auth_result) ==
  IF auth_result = "HttpResponse"
    THEN ImmediateHttpResponse(BackendResponse("authentication"))
  ELSE IF auth_result \in {"False", "None"}
    THEN ImmediateHttpResponse(
           NewResponse("HttpUnauthorized", TextBody(""), DefaultContentType))
  ELSE NoExc

\* BaseHandler._is_authenticated: the exception raised for the backend's
\* result (NoExc: the request goes on)
_is_authenticated(auth_result) ==
  IF auth_result = "HttpResponse"
    THEN ImmediateHttpResponse(BackendResponse("authentication"))
  ELSE IF ~(auth_result = "True")
    THEN ImmediateHttpResponse(
           NewResponse("HttpUnauthorized", TextBody(""), DefaultContentType))
  ELSE NoExc

\* _is_authorized without the 401 for a result that is not True
_is_authorized_lenient(auth_result) ==
  IF auth_result = "HttpResponse"
    THEN ImmediateHttpResponse(BackendResponse("authorization"))
  ELSE NoExc

\* BaseHandler._is_authorized: the same decision for the authorization
\* backend's result
_is_authorized(auth_result) ==
  IF auth_result = "HttpResponse"
    THEN ImmediateHttpResponse(BackendResponse("authorization"))
  ELSE IF ~(auth_result = "True")
    THEN ImmediateHttpResponse(
           NewResponse("HttpUnauthorized", TextBody(""), DefaultContentType))
  ELSE NoExc

\* Authentication.get_identifier: "%s_%s" % (REMOTE_ADDR or 'noaddr',
\* REMOTE_HOST or 'nohost')
get_identifier(addr, host) ==
  (IF addr = None THEN "noaddr" ELSE addr) \o "_" \o
  (IF host = None THEN "nohost" ELSE host)

\* ?token= in the query string or the form body (None: the key is missing)
Tokens == {None, "", "k1", "k2"}

\* extract_credentials that looks at the body parameter first
extract_credentials_body_first(GET_token, POST_token) ==
  IF POST_token \notin {None, ""} THEN POST_token ELSE GET_token

\* TokenAuthentication.extract_credentials:
\* request.GET.get('token') or request.POST.get('token')
extract_credentials(GET_token, POST_token) ==
  IF GET_token \notin {None, ""} THEN GET_token ELSE POST_token

\* TokenAuthentication.get_identifier:
\* "%s_%s_%s" % (address, host, extract_credentials(request) or 'notoken')
TokenAuthentication_get_identifier(addr, host, GET_token, POST_token) ==
  LET address == IF addr = None THEN "noaddr" ELSE addr
      hostname == IF host = None THEN "nohost" ELSE host
      credentials == extract_credentials(GET_token, POST_token)
      token == IF credentials \in {None, ""} THEN "notoken" ELSE credentials
  IN address \o "_" \o hostname \o "_" \o token

\* ------------------------------------------------------------- serializer
\* Serializer.formats and Serializer.content_types
SerializerFormats == <<"json", "jsonp", "xml">>

get_mime_for_format(format) ==
  CASE format = "json" -> "application/json"
    [] format = "jsonp" -> "text/javascript"
    [] format = "xml" -> "application/xml"
    [] OTHER -> "application/json"

\* Serializer.supported_formats: the MIME types of the formats
supported_formats ==
  [i \in 1..Len(SerializerFormats) |-> get_mime_for_format(SerializerFormats[i])]

\* a serialized body
SerializedBody(data, format, callback) ==
  [text |-> None, payload |-> data.payload, error |-> data.error,
   traceback |-> data.traceback, format |-> format, callback |-> callback]

\* native data handed to the serializer
Data(payload, error, traceback) ==
  [payload |-> payload, error |-> error, traceback |-> traceback]

\* Serializer.serialize(data, format, options)
serialize(data, format, callback) ==
  IF InList(format, supported_formats)
    THEN [raises |-> NoExc, body |-> SerializedBody(data, format, callback)]
    ELSE [raises |-> PlainExc("UnsupportedFormat", "unsupported format"),
          body |-> TextBody(None)]

\* is_valid_jsonp_callback_value on the callback names that occur
is_valid_jsonp_callback_value(callback) == callback \in {"callback", "cb"}

\* the names handler.py binds at module level (its imports and definitions)
HandlerGlobals ==
  {"copy", "datetime", "logging", "mimeparse", "django", "settings", "patterns",
   "url", "ObjectDoesNotExist", "MultipleObjectsReturned", "ValidationError",
   "ErrorDict", "ErrorList", "HttpResponse", "HttpResponseNotFound", "Http404",
   "SortedDict", "csrf_exempt", "BaseField", "FileField", "Serializer",
   "Authentication", "ReadOnlyAuthorization", "NoCache", "BaseThrottle",
   "NotFound", "BadRequest", "ImmediateHttpResponse", "http",
   "get_declared_fields", "ResourceOptions", "DeclarativeFieldsMetaclass",
   "BaseHandler", "convert_post_to_VERB", "convert_post_to_put",
   "convert_post_to_patch", "determine_format", "build_content_type"}

\* `'text/javascript' in format` on the MIME types that occur
IsJavascript(format) == format \in {"text/javascript"}

\* mimeparse.best_match(formats, header) for a header that names one media
\* type: that type when it is supported, else ''
best_match(formats, header) == IF InList(header, formats) THEN header ELSE ""

\* list.reverse()
Reverse(seq) == [i \in 1..Len(seq) |-> seq[Len(seq) + 1 - i]]

\* determine_format that looks at `callback` before `format`
determine_format_callback_first(GET_format, GET_callback, HTTP_ACCEPT, default_format) ==
  IF GET_callback # None
    THEN get_mime_for_format("jsonp")
  ELSE IF GET_format \notin {None, ""} /\ InList(GET_format, SerializerFormats)
    THEN get_mime_for_format(GET_format)
  ELSE IF (IF HTTP_ACCEPT = None THEN "*/*" ELSE HTTP_ACCEPT) # "*/*"
          /\ best_match(Reverse(supported_formats), HTTP_ACCEPT) # ""
    THEN best_match(Reverse(supported_formats), HTTP_ACCEPT)
  ELSE default_format

\* determine_format(request, serializer, default_format)
determine_format(GET_format, GET_callback, HTTP_ACCEPT, default_format) ==
  IF GET_format \notin {None, ""} /\ InList(GET_format, SerializerFormats)
    THEN get_mime_for_format(GET_format)
  ELSE IF GET_callback # None
    THEN get_mime_for_format("jsonp")
  ELSE IF (IF HTTP_ACCEPT = None THEN "*/*" ELSE HTTP_ACCEPT) # "*/*"
          /\ best_match(Reverse(supported_formats), HTTP_ACCEPT) # ""
    THEN best_match(Reverse(supported_formats), HTTP_ACCEPT)
  ELSE default_format

\* build_content_type(format): no MIME type that occurs contains 'charset'
build_content_type(format) ==
  IF format \in {DefaultContentType} THEN format ELSE format \o "; charset=utf-8"

\* BaseHandler._serialize: the exception raised (NoExc: none), the body, and
\* whether the serializer was called (and with which callback option)
_serialize(GET_callback, data, format) ==
  IF IsJavascript(format)
    THEN LET callback == IF GET_callback = None THEN "callback" ELSE GET_callback
         IN IF "is_valid_jsonp_callback_value" \notin HandlerGlobals
              THEN [raises |-> PlainExc("NameError",
                                 "global name 'is_valid_jsonp_callback_value' is not defined"),
                    body |-> TextBody(None), called |-> FALSE, callback |-> None]
            ELSE IF ~is_valid_jsonp_callback_value(callback)
              THEN [raises |-> PlainExc("BadRequest", "JSONP callback name is invalid."),
                    body |-> TextBody(None), called |-> FALSE, callback |-> None]
            ELSE [raises |-> serialize(data, format, callback).raises,
                  body |-> serialize(data, format, callback).body,
                  called |-> TRUE, callback |-> callback]
    ELSE [raises |-> serialize(data, format, None).raises,
          body |-> serialize(data, format, None).body,
          called |-> TRUE, callback |-> None]

\* ---------------------------------------------------------- Python values
\* a Python object as the field code sees it: its type and its text
PyNone == [t |-> "NoneType", v |-> None]
Str(s) == [t |-> "unicode", v |-> s]
PyTrue == [t |-> "bool", v |-> "True"]
PyFalse == [t |-> "bool", v |-> "False"]
PyInt(digits) == [t |-> "int", v |-> digits]
PyFloat(text) == [t |-> "float", v |-> text]
Decimal(text) == [t |-> "Decimal", v |-> text]
Date(text) == [t |-> "date", v |-> text]
Time(text) == [t |-> "time", v |-> text]
DateTime(text) == [t |-> "datetime", v |-> text]
\* a field object that is used as a value
FieldObject(type) == [t |-> type, v |-> "<field object>"]

\* bool(value)
Truthy(value) ==
  CASE value.t = "NoneType" -> FALSE
    [] value.t = "unicode" -> value.v # ""
    [] value.t = "bool" -> value.v = "True"
    [] value.t = "int" -> value.v # "0"
    [] OTHER -> TRUE

\* a == b of Python, where True == 1 and False == 0
PyEq(a, b) ==
  LET num(x) == IF x = PyTrue THEN PyInt("1") ELSE IF x = PyFalse THEN PyInt("0") ELSE x
  IN num(a) = num(b)

\* `value in (a, b, ...)`
PyIn(value, tuple) == \E i \in 1..Len(tuple) : PyEq(value, tuple[i])

\* ------------------------------------------------------ character strings
\* the slices s[i-1:i], s[i-1:] and s[:i] of Python
Char(s, i) == IF i < 1 \/ i > Len(s) THEN "" ELSE SubSeq(s, i, i)
From(s, i) == IF i > Len(s) THEN "" ELSE SubSeq(s, i, Len(s))
Upto(s, i) == IF i < 1 THEN "" ELSE SubSeq(s, 1, IF i > Len(s) THEN Len(s) ELSE i)

DigitChars == "0123456789"
LowerChars == "abcdefghijklmnopqrstuvwxyz"
UpperChars == "ABCDEFGHIJKLMNOPQRSTUVWXYZ"

\* c in chars
CharIn(c, chars) == \E i \in 1..Len(chars) : Char(chars, i) = c
\* `any(c in chars for c in s)` and `all(c in chars for c in s)`
AnyIn(s, chars) == \E i \in 1..Len(s) : CharIn(Char(s, i), chars)
AllIn(s, chars) == \A i \in 1..Len(s) : CharIn(Char(s, i), chars)

\* s.find(c) + 1: the place of the first c in s, 0 when there is none
Find(s, c) ==
  IF \E i \in 1..Len(s) : Char(s, i) = c
    THEN CHOOSE i \in 1..Len(s) : Char(s, i) = c /\ \A j \in 1..(i - 1) : Char(s, j) # c
    ELSE 0

\* the place of the first character of s that is in chars, 0 when none is
FindAny(s, chars) ==
  IF AnyIn(s, chars)
    THEN CHOOSE i \in 1..Len(s) :
           CharIn(Char(s, i), chars) /\ \A j \in 1..(i - 1) : ~CharIn(Char(s, j), chars)
    ELSE 0

RECURSIVE str_lower(_)
\* unicode.lower
str_lower(s) ==
  IF s = "" THEN ""
  ELSE LET c == Char(s, 1)
           k == Find(UpperChars, c)
       IN (IF k = 0 THEN c ELSE Char(LowerChars, k)) \o str_lower(From(s, 2))

\* unicode.strip, for blanks
strip(s) ==
  IF AllIn(s, " ") THEN ""
  ELSE LET first == CHOOSE i \in 1..Len(s) : Char(s, i) # " " /\ AllIn(Upto(s, i - 1), " ")
           last == CHOOSE i \in 1..Len(s) : Char(s, i) # " " /\ AllIn(From(s, i + 1), " ")
       IN SubSeq(s, first, last)

RECURSIVE Split(_, _)
\* s.split(c)
Split(s, c) ==
  IF Find(s, c) = 0 THEN <<s>>
  ELSE <<Upto(s, Find(s, c) - 1)>> \o Split(From(s, Find(s, c) + 1), c)

\* ------------------------------------------------------- number literals
RECURSIVE ToNat(_)
\* the number a string of digits stands for
ToNat(digits) ==
  IF digits = "" THEN 0
  ELSE 10 * ToNat(Upto(digits, Len(digits) - 1))
       + (Find(DigitChars, Char(digits, Len(digits))) - 1)

RECURSIVE StripZeros(_)
\* digits without their leading zeros ("0" for zero)
StripZeros(digits) ==
  IF digits = "" THEN "0"
  ELSE IF Len(digits) > 1 /\ Char(digits, 1) = "0" THEN StripZeros(From(digits, 2))
  ELSE digits

\* text read as sign, digits, point, digits (blanks around it are ignored);
\* exponents are not among the inputs
Numeral(text) ==
  LET Of(s) ==
        LET signed == s # "" /\ CharIn(Char(s, 1), "+-")
            body == IF signed THEN From(s, 2) ELSE s
            Pointed(point) ==
              LET whole == IF point = 0 THEN body ELSE Upto(body, point - 1)
                  frac == IF point = 0 THEN "" ELSE From(body, point + 1)
              IN [ok |-> /\ AllIn(whole, DigitChars) /\ AllIn(frac, DigitChars)
                         /\ (whole \o frac) # "",
                  sign |-> IF signed /\ Char(s, 1) = "-" THEN "-" ELSE "",
                  point |-> point # 0, whole |-> whole, frac |-> frac]
        IN Pointed(Find(body, "."))
  IN Of(strip(text))

\* the names float() and Decimal() read as not-a-number and infinity
SpecialNumber(text) ==
  LET Of(s) ==
        LET unsigned == IF s # "" /\ CharIn(Char(s, 1), "+-") THEN From(s, 2) ELSE s
        IN CASE unsigned = "nan" -> "nan"
             [] unsigned \in {"inf", "infinity"} -> (IF Char(s, 1) = "-" THEN "-inf" ELSE "inf")
             [] OTHER -> ""
  IN Of(str_lower(strip(text)))

\* int(text): raises ValueError unless text is a whole number
int(text) ==
  LET Of(n) ==
        IF n.ok /\ ~n.point
          THEN [ok |-> TRUE,
                value |-> PyInt((IF StripZeros(n.whole) = "0" THEN "" ELSE n.sign)
                                \o StripZeros(n.whole))]
          ELSE [ok |-> FALSE, value |-> PyNone]
  IN Of(Numeral(text))

\* float(text): raises ValueError unless text is a number
float(text) ==
  LET Of(n, special) ==
        IF special # "" THEN [ok |-> TRUE, value |-> PyFloat(special)]
        ELSE IF n.ok
          THEN [ok |-> TRUE,
                value |-> PyFloat(n.sign \o StripZeros(n.whole) \o "."
                                  \o (IF n.frac = "" THEN "0" ELSE n.frac))]
        ELSE [ok |-> FALSE, value |-> PyNone]
  IN Of(Numeral(text), SpecialNumber(text))

\* Decimal(text): raises DecimalException unless text is a number
DecimalOf(text) ==
  LET Of(n, special) ==
        IF special # "" THEN [ok |-> TRUE, value |-> Decimal(special)]
        ELSE IF n.ok
          THEN [ok |-> TRUE,
                value |-> Decimal(n.sign \o StripZeros(n.whole)
                                  \o (IF n.frac = "" THEN "" ELSE "." \o n.frac))]
        ELSE [ok |-> FALSE, value |-> PyNone]
  IN Of(Numeral(text), SpecialNumber(text))

\* str(value) and smart_unicode(value): the text of a value
TextOf(value) == value.v

\* ---------------------------------------------------------- dates and times
\* a strptime directive that reads a number of at most two digits in lo..hi
TwoDigits(text, lo, hi) ==
  /\ text # "" /\ Len(text) <= 2 /\ AllIn(text, DigitChars)
  /\ ToNat(text) >= lo /\ ToNat(text) <= hi

\* %Y: four digits
FourDigits(text) == Len(text) = 4 /\ AllIn(text, DigitChars)

Pad2(text) == IF Len(text) = 1 THEN "0" \o text ELSE text

DaysIn(year, month) ==
  CASE month \in {4, 6, 9, 11} -> 30
    [] month = 2 -> (IF year % 4 = 0 /\ (year % 100 # 0 \/ year % 400 = 0) THEN 29 ELSE 28)
    [] OTHER -> 31

\* the date in year, month and day, if there is such a day
DateOf(year, month, day) ==
  IF /\ FourDigits(year) /\ TwoDigits(month, 1, 12) /\ TwoDigits(day, 1, 31)
     /\ ToNat(day) <= DaysIn(ToNat(year), ToNat(month))
    THEN [ok |-> TRUE, text |-> year \o "-" \o Pad2(month) \o "-" \o Pad2(day)]
    ELSE [ok |-> FALSE, text |-> ""]

\* strptime against DATE_INPUT_FORMATS, of which '%Y-%m-%d' and '%m/%d/%Y'
\* are modelled, in this order
strptime_date(text) ==
  LET iso == Split(text, "-")
      us == Split(text, "/")
  IN IF Len(iso) = 3 /\ DateOf(iso[1], iso[2], iso[3]).ok
       THEN DateOf(iso[1], iso[2], iso[3])
     ELSE IF Len(us) = 3 THEN DateOf(us[3], us[1], us[2])
     ELSE [ok |-> FALSE, text |-> ""]

\* strptime against TIME_INPUT_FORMATS: '%H:%M:%S' and '%H:%M'
strptime_time(text) ==
  LET parts == Split(text, ":")
      second == IF Len(parts) = 3 THEN parts[3] ELSE "00"
  IN IF /\ Len(parts) \in {2, 3}
        /\ TwoDigits(parts[1], 0, 23) /\ TwoDigits(parts[2], 0, 59)
        /\ TwoDigits(second, 0, 61)
       THEN [ok |-> TRUE,
             text |-> Pad2(parts[1]) \o ":" \o Pad2(parts[2]) \o ":" \o Pad2(second)]
       ELSE [ok |-> FALSE, text |-> ""]

\* strptime against DATETIME_INPUT_FORMATS: '%Y-%m-%d %H:%M:%S',
\* '%Y-%m-%d %H:%M' and '%Y-%m-%d'
strptime_datetime(text) ==
  LET Of(day, time) ==
        IF day.ok /\ time.ok THEN [ok |-> TRUE, text |-> day.text \o " " \o time.text]
        ELSE [ok |-> FALSE, text |-> ""]
      Parts(parts, date) ==
        Of(IF Len(date) = 3 THEN DateOf(date[1], date[2], date[3])
           ELSE [ok |-> FALSE, text |-> ""],
           IF Len(parts) = 2 THEN strptime_time(parts[2])
           ELSE [ok |-> Len(parts) = 1, text |-> "00:00:00"])
  IN Parts(Split(text, " "), Split(Split(text, " ")[1], "-"))

\* ------------------------------------------------------------------- URLs
\* urlparse.scheme_chars and urlparse.uses_netloc
scheme_chars == LowerChars \o UpperChars \o DigitChars \o "+-."
uses_netloc ==
  {"ftp", "http", "gopher", "nntp", "telnet", "imap", "wais", "file", "mms", "https",
   "shttp", "snews", "prospero", "rtsp", "rtspu", "rsync", "", "svn", "svn+ssh", "sftp",
   "nfs", "git", "git+ssh"}

\* urlparse._splitnetloc(url, 2): the network location ends before the first
\* of "/", "?" and "#"
_splitnetloc(url) ==
  LET Of(rest, delim) ==
        IF delim = 0 THEN [netloc |-> rest, url |-> ""]
        ELSE [netloc |-> Upto(rest, delim - 1), url |-> From(rest, delim)]
  IN Of(From(url, 3), FindAny(From(url, 3), "/?#"))

\* urlparse.urlsplit(url) of Python 2.7: the five parts, or the ValueError
\* it raises for an unbalanced bracket in the network location.  A text
\* before the first colon is the scheme when it is "http", or when it is
\* made of scheme characters and what follows the colon is no port number.
urlsplit(url) ==
  LET Queried(scheme, netloc, url3, fragment, mark) ==
        [raised |-> IF (Find(netloc, "[") # 0) # (Find(netloc, "]") # 0)
                      THEN "ValueError" ELSE None,
         scheme |-> scheme, netloc |-> netloc,
         path |-> IF mark = 0 THEN url3 ELSE Upto(url3, mark - 1),
         query |-> IF mark = 0 THEN "" ELSE From(url3, mark + 1),
         fragment |-> fragment]
      Fragmented(scheme, netloc, url3, fragment) ==
        Queried(scheme, netloc, url3, fragment, Find(url3, "?"))
      Located(scheme, netloc, url2, hash) ==
        Fragmented(scheme, netloc,
                   IF hash = 0 THEN url2 ELSE Upto(url2, hash - 1),
                   IF hash = 0 THEN "" ELSE From(url2, hash + 1))
      Split2(scheme, netloc, url2) == Located(scheme, netloc, url2, Find(url2, "#"))
      Schemed(scheme, url1, has_netloc) ==
        Split2(scheme,
               IF has_netloc THEN _splitnetloc(url1).netloc ELSE "",
               IF has_netloc THEN _splitnetloc(url1).url ELSE url1)
      Split1(scheme, url1) == Schemed(scheme, url1, Upto(url1, 2) = "//")
      Coloned(i, has_scheme) ==
        Split1(IF has_scheme THEN str_lower(Upto(url, i - 1)) ELSE "",
               IF has_scheme THEN From(url, i + 1) ELSE url)
      Found(i, rest) ==
        Coloned(i, \/ i > 1 /\ Upto(url, i - 1) = "http"
                   \/ /\ i > 1
                      /\ AllIn(Upto(url, i - 1), scheme_chars)
                      /\ (rest = "" \/ ~AllIn(rest, DigitChars)))
  IN Found(Find(url, ":"), From(url, Find(url, ":") + 1))

\* urlparse.urlunsplit(parts)
urlunsplit(parts) ==
  LET slashed == IF parts.path # "" /\ Char(parts.path, 1) # "/"
                   THEN "/" \o parts.path ELSE parts.path
      url1 == IF \/ parts.netloc # ""
                 \/ (parts.scheme # "" /\ parts.scheme \in uses_netloc
                     /\ Upto(parts.path, 2) # "//")
                THEN "//" \o parts.netloc \o slashed
                ELSE parts.path
      url2 == IF parts.scheme # "" THEN parts.scheme \o ":" \o url1 ELSE url1
      url3 == IF parts.query # "" THEN url2 \o "?" \o parts.query ELSE url2
  IN IF parts.fragment # "" THEN url3 \o "#" \o parts.fragment ELSE url3

\* URLField.to_python on a non-empty text: the normalised URL, or the
\* ValidationError('invalid') that split_url makes of a ValueError
normalise_url(value) ==
  LET Ends(split1, split2) ==
        IF split1.raised # None \/ split2.raised # None
          THEN [raised |-> "ValidationError", value |-> ""]
          ELSE [raised |-> None,
                value |-> urlunsplit([split2 EXCEPT !.path = IF @ = "" THEN "/" ELSE @])]
      Schemed(fields1, moved) == Ends(fields1, IF fields1.netloc = "" THEN moved ELSE fields1)
      Parts(fields1) ==
        Schemed(fields1,
                urlsplit(urlunsplit([fields1 EXCEPT !.netloc = fields1.path, !.path = ""])))
      Of(split1) == Parts([split1 EXCEPT !.scheme = IF @ = "" THEN "http" ELSE @])
  IN Of(urlsplit(value))

\* -------------------------------------------------------------- validators
\* django.core.validators.EMPTY_VALUES: (None, '', [], (), {})
EMPTY_VALUES == {PyNone, Str("")}

\* a validator object: its class (or function) and its limit_value
Validator(kind, limit) == [kind |-> kind, limit |-> limit]
MinLengthValidator(limit) == Validator("MinLengthValidator", limit)
MaxLengthValidator(limit) == Validator("MaxLengthValidator", limit)
MinValueValidator(limit) == Validator("MinValueValidator", limit)
MaxValueValidator(limit) == Validator("MaxValueValidator", limit)
validate_email == Validator("validate_email", 0)
validate_ipv4_address == Validator("validate_ipv4_address", 0)
validate_slug == Validator("validate_slug", 0)
URLValidator == Validator("URLValidator", 0)

\* the number an int or a bool stands for
NumberOf(value) ==
  CASE value = PyTrue -> 1
    [] value = PyFalse -> 0
    [] Char(value.v, 1) = "-" -> 0 - ToNat(From(value.v, 2))
    [] OTHER -> ToNat(value.v)

\* value > limit and value < limit of Python 2, where every text is greater
\* than every number (limits are declared on whole-number fields only)
GreaterThan(value, limit) ==
  IF value.t \in {"int", "bool"} THEN NumberOf(value) > limit ELSE TRUE
LessThan(value, limit) ==
  IF value.t \in {"int", "bool"} THEN NumberOf(value) < limit ELSE FALSE

\* a host name the regular expressions of validate_email and URLValidator
\* accept: labels of letters, digits and hyphens, the last one of letters
DomainName(text) ==
  LET labels == Split(text, ".")
      last == labels[Len(labels)]
  IN /\ Len(labels) >= 2
     /\ \A i \in 1..Len(labels) :
          labels[i] # "" /\ AllIn(labels[i], LowerChars \o UpperChars \o DigitChars \o "-")
     /\ Len(last) >= 2 /\ Len(last) <= 6 /\ AllIn(last, LowerChars \o UpperChars)

\* ipv4_re
IPv4(text) ==
  LET parts == Split(text, ".")
  IN /\ Len(parts) = 4
     /\ \A i \in 1..4 : /\ parts[i] # "" /\ Len(parts[i]) <= 3
                        /\ AllIn(parts[i], DigitChars) /\ ToNat(parts[i]) <= 255

\* email_re: a dot-atom, "@" and a domain name
Email(text) ==
  LET at == Find(text, "@")
  IN /\ at > 1
     /\ AllIn(Upto(text, at - 1), LowerChars \o UpperChars \o DigitChars \o "._+-")
     /\ DomainName(From(text, at + 1))

\* slug_re: ^[-\w]+$
Slug(text) == text # "" /\ AllIn(text, LowerChars \o UpperChars \o DigitChars \o "_-")

\* the regular expression of URLValidator: http, https, ftp or ftps, "://",
\* a domain name, localhost or an IPv4 address, a port, and a rest that is
\* empty or starts with "/" or "?" and has no blank
Url(text) ==
  LET colon == Find(text, ":")
      after == From(text, colon + 3)
      stop == FindAny(after, ":/?")
      host == IF stop = 0 THEN after ELSE Upto(after, stop - 1)
      tail == IF stop = 0 THEN "" ELSE From(after, stop)
      slash == FindAny(tail, "/?")
      port == IF Char(tail, 1) # ":" THEN ""
              ELSE IF slash = 0 THEN From(tail, 2) ELSE SubSeq(tail, 2, slash - 1)
      rest == IF slash = 0 THEN "" ELSE From(tail, slash)
  IN /\ str_lower(Upto(text, colon - 1)) \in {"http", "https", "ftp", "ftps"}
     /\ SubSeq(text \o "  ", colon + 1, colon + 2) = "//"
     /\ DomainName(host) \/ str_lower(host) = "localhost" \/ IPv4(host)
     /\ Char(tail, 1) = ":" => (port # "" /\ AllIn(port, DigitChars))
     /\ ~AnyIn(rest, " ")

\* what a call of the validator does: code is the code of the
\* ValidationError it raises ("": it raises nothing), and raised tells when
\* it ends with another exception
CallValidator(validator, value) ==
  LET Ends(sized, failed, code) ==
        IF validator.kind \in {"MinLengthValidator", "MaxLengthValidator"} /\ ~sized
          THEN [raised |-> "TypeError", code |-> ""]
        ELSE IF failed THEN [raised |-> "ValidationError", code |-> code]
        ELSE [raised |-> None, code |-> ""]
  IN Ends(value.t = "unicode",
          CASE validator.kind = "MinLengthValidator" ->
                 value.t = "unicode" /\ Len(TextOf(value)) < validator.limit
            [] validator.kind = "MaxLengthValidator" ->
                 value.t = "unicode" /\ Len(TextOf(value)) > validator.limit
            [] validator.kind = "MinValueValidator" -> LessThan(value, validator.limit)
            [] validator.kind = "MaxValueValidator" -> GreaterThan(value, validator.limit)
            [] validator.kind = "validate_email" -> ~Email(TextOf(value))
            [] validator.kind = "validate_ipv4_address" -> ~IPv4(TextOf(value))
            [] validator.kind = "validate_slug" -> ~Slug(TextOf(value))
            [] validator.kind = "URLValidator" -> ~Url(TextOf(value)),
          CASE validator.kind = "MinLengthValidator" -> "min_length"
            [] validator.kind = "MaxLengthValidator" -> "max_length"
            [] validator.kind = "MinValueValidator" -> "min_value"
            [] validator.kind = "MaxValueValidator" -> "max_value"
            [] OTHER -> "invalid")

\* ----------------------------------------------------------------- fields
\* the field classes of fields.py
FieldTypes ==
  {"BaseField", "CharField", "IntegerField", "FloatField", "DecimalField", "DateField",
   "TimeField", "DateTimeField", "EmailField", "URLField", "IPAddressField", "SlugField",
   "BooleanField", "NullBooleanField", "FileField", "ImageField"}

\* the subclasses of CharField, of BaseTemporalField and of IntegerField
CharFields == {"CharField", "EmailField", "URLField", "IPAddressField", "SlugField"}
TemporalFields == {"DateField", "TimeField", "DateTimeField"}
IntegerFields == {"IntegerField", "FloatField"}

\* the class attribute default_validators
default_validators(type) ==
  CASE type = "EmailField" -> <<validate_email>>
    [] type = "IPAddressField" -> <<validate_ipv4_address>>
    [] type = "SlugField" -> <<validate_slug>>
    [] OTHER -> <<>>

\* BaseField.__init__.  An optional number is <<>> (None) or <<n>>.
BaseField(type, default, required, validators) ==
  [type |-> type, default |-> default, required |-> required,
   validators |-> default_validators(type) \o validators,
   max_digits |-> <<>>, decimal_places |-> <<>>]

\* CharField.__init__, which its subclasses inherit, and URLField.__init__
CharField(type, max_length, min_length, default, required, validators) ==
  LET self == BaseField(type, default, required, validators)
  IN [self EXCEPT
        !.validators =
           @ \o (IF min_length = <<>> THEN <<>> ELSE <<MinLengthValidator(min_length[1])>>)
             \o (IF max_length = <<>> THEN <<>> ELSE <<MaxLengthValidator(max_length[1])>>)
             \o (IF type = "URLField" THEN <<URLValidator>> ELSE <<>>),
        !.default = IF default = PyNone THEN Str("") ELSE default]

\* IntegerField.__init__, which FloatField inherits
IntegerField(type, max_value, min_value, default, required, validators) ==
  LET self == BaseField(type, default, required, validators)
  IN [self EXCEPT
        !.validators =
           @ \o (IF max_value = <<>> THEN <<>> ELSE <<MaxValueValidator(max_value[1])>>)
             \o (IF min_value = <<>> THEN <<>> ELSE <<MinValueValidator(min_value[1])>>)]

\* DecimalField.__init__: it calls BaseField.__init__(self, self, *args,
\* **kwargs), so the field itself becomes its default (and a `default`
\* keyword makes the call fail: no such field can be declared)
DecimalField(max_value, min_value, max_digits, decimal_places, required, validators) ==
  LET self == BaseField("DecimalField", FieldObject("DecimalField"), required, validators)
  IN [self EXCEPT
        !.max_digits = max_digits, !.decimal_places = decimal_places,
        !.validators =
           @ \o (IF max_value = <<>> THEN <<>> ELSE <<MaxValueValidator(max_value[1])>>)
             \o (IF min_value = <<>> THEN <<>> ELSE <<MinValueValidator(min_value[1])>>)]

\* the key `code` is in field.error_messages
HasMessage(field, code) ==
  \/ code \in {"required", "invalid"}
  \/ code \in {"max_value", "min_value"} /\ field.type \in IntegerFields \cup {"DecimalField"}
  \/ code \in {"max_digits", "max_decimal_places", "max_whole_digits"}
       /\ field.type = "DecimalField"
  \/ code \in {"missing", "empty", "max_length", "contradiction"}
       /\ field.type \in {"FileField", "ImageField"}
  \/ code = "invalid_image" /\ field.type = "ImageField"
  \/ code = "invalid_link" /\ field.type = "URLField"

\* field.error_messages[code]
error_messages(field, code) ==
  CASE code = "required" -> "This field is required."
    [] code = "invalid" ->
         (CASE field.type = "IntegerField" -> "Enter a whole number."
            [] field.type \in {"FloatField", "DecimalField"} -> "Enter a number."
            [] field.type = "DateField" -> "Enter a valid date."
            [] field.type = "TimeField" -> "Enter a valid time."
            [] field.type = "DateTimeField" -> "Enter a valid date/time."
            [] field.type = "EmailField" -> "Enter a valid e-mail address."
            [] field.type = "URLField" -> "Enter a valid URL."
            [] field.type = "IPAddressField" -> "Enter a valid IPv4 address."
            [] field.type = "SlugField" -> "Enter a valid 'slug'."
            [] field.type \in {"FileField", "ImageField"} -> "No file was submitted."
            [] OTHER -> "Enter a valid value.")
    [] code = "max_value" -> "Ensure this value is less than or equal to limit_value."
    [] code = "min_value" -> "Ensure this value is greater than or equal to limit_value."
    [] code = "max_digits" -> "Ensure that there are no more than max_digits digits in total."
    [] code = "max_decimal_places" -> "Ensure that there are no more than decimal_places decimal places."
    [] code = "max_whole_digits" -> "Ensure that there are no more than max_digits - decimal_places digits before the decimal point."
    [] OTHER -> code

\* the message a length validator gives its own ValidationError
ValidatorMessage(validator) ==
  CASE validator.kind = "MinLengthValidator" -> "Ensure this value has at least limit_value characters."
    [] validator.kind = "MaxLengthValidator" -> "Ensure this value has at most limit_value characters."
    [] OTHER -> "Enter a valid value."

\* how a method ends: with a value, or with an exception and its messages
Returns(value) == [raised |-> None, messages |-> <<>>, value |-> value]
Raises(type, messages) == [raised |-> type, messages |-> messages, value |-> PyNone]
ValidationError(field, code) == Raises("ValidationError", <<error_messages(field, code)>>)

\* CharField.to_python
CharField_to_python(field, value) ==
  IF value \in EMPTY_VALUES THEN Returns(field.default) ELSE Returns(Str(TextOf(value)))

\* URLField.to_python; urlsplit of a value that is no text ends with an
\* AttributeError
URLField_to_python(field, value) ==
  LET Ends(text, normalised) ==
        IF ~Truthy(text) THEN Returns(text)
        ELSE IF text.t # "unicode" THEN Raises("AttributeError", <<"no attribute 'find'">>)
        ELSE IF normalised.raised # None THEN ValidationError(field, "invalid")
        ELSE Returns(Str(normalised.value))
  IN Ends(CharField_to_python(field, value).value,
          normalise_url(CharField_to_python(field, value).value.v))

\* IntegerField.to_python: int(str(value))
IntegerField_to_python(field, value) ==
  IF value \in EMPTY_VALUES THEN Returns(field.default)
  ELSE IF value.t = "int" THEN Returns(value)
  ELSE IF value.t = "unicode" /\ int(value.v).ok THEN Returns(int(value.v).value)
  ELSE ValidationError(field, "invalid")

\* FloatField.to_python: float(value)
FloatField_to_python(field, value) ==
  LET Of(parsed) ==
        IF value \in EMPTY_VALUES THEN Returns(field.default)
        ELSE IF value.t = "int" THEN Returns(parsed.value)
        ELSE IF value.t = "bool"
          THEN Returns(PyFloat(IF value = PyTrue THEN "1.0" ELSE "0.0"))
        ELSE IF value.t = "unicode" /\ parsed.ok THEN Returns(parsed.value)
        ELSE ValidationError(field, "invalid")
  IN Of(float(value.v))

\* DecimalField.to_python: Decimal(smart_str(value).strip())
DecimalField_to_python(field, value) ==
  IF value \in EMPTY_VALUES THEN Returns(field.default)
  ELSE IF DecimalOf(strip(TextOf(value))).ok
    THEN Returns(DecimalOf(strip(TextOf(value))).value)
  ELSE ValidationError(field, "invalid")

\* DateField.to_python, TimeField.to_python and DateTimeField.to_python over
\* BaseTemporalField.to_python: a text is stripped and parsed, any other
\* value is invalid (no raw value is a date or a time already, and
\* from_current_timezone leaves a naive datetime as it is)
TemporalField_to_python(field, value) ==
  LET Of(parsed) ==
        IF value \in EMPTY_VALUES THEN Returns(field.default)
        ELSE IF value.t = "unicode" /\ parsed.ok
          THEN Returns(CASE field.type = "DateField" -> Date(parsed.text)
                         [] field.type = "TimeField" -> Time(parsed.text)
                         [] OTHER -> DateTime(parsed.text))
        ELSE ValidationError(field, "invalid")
  IN Of(CASE field.type = "DateField" -> strptime_date(strip(TextOf(value)))
          [] field.type = "TimeField" -> strptime_time(strip(TextOf(value)))
          [] OTHER -> strptime_datetime(strip(TextOf(value))))

\* a to_python that compares the text without lowering it
BooleanField_to_python_case_sensitive(field, value) ==
  LET bool == IF value.t = "unicode" /\ value.v \in {"false", "0"}
                THEN PyFalse
                ELSE IF Truthy(value) THEN PyTrue ELSE PyFalse
  IN IF bool = PyFalse /\ field.required THEN ValidationError(field, "required")
     ELSE Returns(bool)

\* BooleanField.to_python
BooleanField_to_python(field, value) ==
  LET bool == IF value.t = "unicode" /\ str_lower(value.v) \in {"false", "0"}
                THEN PyFalse
                ELSE IF Truthy(value) THEN PyTrue ELSE PyFalse
  IN IF bool = PyFalse /\ field.required THEN ValidationError(field, "required")
     ELSE Returns(bool)

\* a to_python that takes the texts in any letter case
NullBooleanField_to_python_caseless(field, value) ==
  IF PyIn(value, <<PyTrue, Str("1")>>) \/ (value.t = "unicode" /\ str_lower(value.v) = "true")
    THEN Returns(PyTrue)
  ELSE IF PyIn(value, <<PyFalse, Str("0")>>)
            \/ (value.t = "unicode" /\ str_lower(value.v) = "false")
    THEN Returns(PyFalse)
  ELSE Returns(field.default)

\* NullBooleanField.to_python
NullBooleanField_to_python(field, value) ==
  IF PyIn(value, <<PyTrue, Str("True"), Str("1")>>) THEN Returns(PyTrue)
  ELSE IF PyIn(value, <<PyFalse, Str("False"), Str("0")>>) THEN Returns(PyFalse)
  ELSE Returns(field.default)

\* FileField.to_python: no raw value is an uploaded file, so data.name ends
\* with the AttributeError that becomes ValidationError('invalid')
FileField_to_python(field, data) ==
  IF data \in EMPTY_VALUES THEN Returns(field.default)
  ELSE ValidationError(field, "invalid")

\* ImageField.to_python: when FileField.to_python gave a default that is not
\* None, data is empty and data['content'] ends with a TypeError
ImageField_to_python(field, data) ==
  LET f == FileField_to_python(field, data)
  IN IF f.raised # None THEN f
     ELSE IF f.value = PyNone THEN Returns(field.default)
     ELSE Raises("TypeError", <<"data['content']">>)

\* field.to_python(value), by the class of the field
to_python(field, value) ==
  CASE field.type = "URLField" -> URLField_to_python(field, value)
    [] field.type \in CharFields \ {"URLField"} -> CharField_to_python(field, value)
    [] field.type = "IntegerField" -> IntegerField_to_python(field, value)
    [] field.type = "FloatField" -> FloatField_to_python(field, value)
    [] field.type = "DecimalField" -> DecimalField_to_python(field, value)
    [] field.type \in TemporalFields -> TemporalField_to_python(field, value)
    [] field.type = "BooleanField" -> BooleanField_to_python(field, value)
    [] field.type = "NullBooleanField" -> NullBooleanField_to_python(field, value)
    [] field.type = "FileField" -> FileField_to_python(field, value)
    [] field.type = "ImageField" -> ImageField_to_python(field, value)
    [] OTHER -> Returns(value)

\* a validate that accepts an empty value for a required field
BaseField_validate_lenient(field, value) == Returns(value)

\* BaseField.validate
BaseField_validate(field, value) ==
  IF value \in EMPTY_VALUES /\ field.required
    THEN ValidationError(field, "required") ELSE Returns(value)

\* DecimalField.validate; as_tuple of a value that is no Decimal ends with
\* an AttributeError
DecimalField_validate(field, value) ==
  LET Counted(digits, decimals) ==
        IF BaseField_validate(field, value).raised # None
          THEN BaseField_validate(field, value)
        ELSE IF value \in EMPTY_VALUES THEN Returns(value)
        ELSE IF value.t = "Decimal" /\ value.v \in {"nan", "inf", "-inf"}
          THEN ValidationError(field, "invalid")
        ELSE IF value.t # "Decimal"
          THEN Raises("AttributeError", <<"no attribute 'as_tuple'">>)
        ELSE IF field.max_digits # <<>> /\ digits > field.max_digits[1]
          THEN ValidationError(field, "max_digits")
        ELSE IF field.decimal_places # <<>> /\ decimals > field.decimal_places[1]
          THEN ValidationError(field, "max_decimal_places")
        ELSE IF /\ field.max_digits # <<>> /\ field.decimal_places # <<>>
                /\ digits - decimals > field.max_digits[1] - field.decimal_places[1]
          THEN ValidationError(field, "max_whole_digits")
        ELSE Returns(value)
      Of(decimals, significant) ==
        Counted(IF decimals > significant THEN decimals ELSE significant, decimals)
      Tuple(n) == Of(Len(n.frac), Len(StripZeros(n.whole \o n.frac)))
  IN Tuple(Numeral(value.v))

\* field.validate(value), by the class of the field
validate(field, value) ==
  CASE field.type = "NullBooleanField" -> Returns(value)
    [] field.type = "DecimalField" -> DecimalField_validate(field, value)
    [] OTHER -> BaseField_validate(field, value)

\* the message run_validators keeps for a validator that raised a
\* ValidationError with this code
CollectedMessage(field, validator, code) ==
  IF HasMessage(field, code) THEN error_messages(field, code) ELSE ValidatorMessage(validator)

RECURSIVE Collected(_, _, _)
\* the messages of the validators from the i-th on that raised a
\* ValidationError, outcomes[i] being what the call of the i-th did
Collected(field, outcomes, i) ==
  IF i > Len(field.validators) THEN <<>>
  ELSE (IF outcomes[i].raised = "ValidationError"
          THEN <<CollectedMessage(field, field.validators[i], outcomes[i].code)>>
          ELSE <<>>) \o Collected(field, outcomes, i + 1)

\* a run_validators that stops at the first validator that fails
run_validators_fail_fast(field, value) ==
  LET n == Len(field.validators)
      Ends(outcomes) ==
        LET Fails(i) == outcomes[i].raised # None
            last == IF \E i \in 1..n : Fails(i)
                      THEN CHOOSE i \in 1..n : Fails(i) /\ \A j \in 1..(i - 1) : ~Fails(j)
                      ELSE n
            calls == [i \in 1..last |-> field.validators[i].kind]
        IN IF value \in EMPTY_VALUES THEN Returns(PyNone) @@ [calls |-> <<>>]
           ELSE IF n = 0 \/ ~Fails(last) THEN Returns(PyNone) @@ [calls |-> calls]
           ELSE IF outcomes[last].raised = "ValidationError"
             THEN Raises("ValidationError",
                         <<CollectedMessage(field, field.validators[last],
                                            outcomes[last].code)>>)
                    @@ [calls |-> calls]
           ELSE Raises(outcomes[last].raised, <<"object has no len()">>) @@ [calls |-> calls]
  IN Ends([i \in 1..n |-> CallValidator(field.validators[i], value)])

\* BaseField.run_validators: how it ends and the validators it called
run_validators(field, value) ==
  LET n == Len(field.validators)
      Ends(outcomes) ==
        LET Escapes(i) == outcomes[i].raised \notin {None, "ValidationError"}
            last == IF \E i \in 1..n : Escapes(i)
                      THEN CHOOSE i \in 1..n : Escapes(i) /\ \A j \in 1..(i - 1) : ~Escapes(j)
                      ELSE n
            calls == [i \in 1..last |-> field.validators[i].kind]
        IN IF value \in EMPTY_VALUES THEN Returns(PyNone) @@ [calls |-> <<>>]
           ELSE IF \E i \in 1..n : Escapes(i)
             THEN Raises(outcomes[last].raised, <<"object has no len()">>)
                    @@ [calls |-> calls]
           ELSE IF Collected(field, outcomes, 1) # <<>>
             THEN Raises("ValidationError", Collected(field, outcomes, 1))
                    @@ [calls |-> calls]
           ELSE Returns(PyNone) @@ [calls |-> calls]
  IN Ends([i \in 1..n |-> CallValidator(field.validators[i], value)])

\* BaseField.clean: to_python, validate, run_validators; how it ends, and
\* the methods and validators it called, in order
BaseField_clean(field, value) ==
  LET Ends(converted, validated, checked) ==
        IF converted.raised # None THEN converted @@ [calls |-> <<"to_python">>]
        ELSE IF validated.raised # None
          THEN validated @@ [calls |-> <<"to_python", "validate">>]
        ELSE IF checked.raised # None
          THEN [checked EXCEPT !.calls = <<"to_python", "validate", "run_validators">> \o @]
        ELSE Returns(converted.value)
               @@ [calls |-> <<"to_python", "validate", "run_validators">> \o checked.calls]
      Of(converted) ==
        Ends(converted, validate(field, converted.value),
             run_validators(field, converted.value))
  IN Of(to_python(field, value))

\* EmailField.clean: self.to_python(value).strip(), then BaseField.clean;
\* to_python is the one the class inherits from CharField, and a value that
\* is no text has no strip
EmailField_clean(field, value) ==
  LET Ends(converted, cleaned) ==
        IF converted.raised # None THEN converted @@ [calls |-> <<"to_python">>]
        ELSE IF converted.value.t # "unicode"
          THEN Raises("AttributeError", <<"no attribute 'strip'">>)
                 @@ [calls |-> <<"to_python">>]
        ELSE [cleaned EXCEPT !.calls = <<"to_python">> \o @]
  IN Ends(CharField_to_python(field, value),
          BaseField_clean(field, Str(strip(CharField_to_python(field, value).value.v))))

\* field.clean(value), by the class of the field
clean(field, value) ==
  IF field.type = "EmailField" THEN EmailField_clean(field, value)
  ELSE BaseField_clean(field, value)

\* ---------------------------------------------------- handler validation
\* the fields the handler class of the followed request declares, in
\* declaration order: title = CharField(max_length=2),
\* note = CharField(max_length=2, required=False)
base_fields ==
  <<[name |-> "title", field |-> CharField("CharField", <<2>>, <<>>, PyNone, TRUE, <<>>)],
    [name |-> "note", field |-> CharField("CharField", <<2>>, <<>>, PyNone, FALSE, <<>>)]>>

\* the keys of a field dictionary
Names(fields) == {fields[i].name : i \in 1..Len(fields)}
FieldNames == Names(base_fields)

\* raw values of a request parameter of the followed request (None: the
\* key is missing)
RawValues == {PyNone, Str("ab"), Str("abc")}

\* BaseHandler._get_raw_value
_get_raw_value(name, get_data, post_data, files) ==
  LET v1 == get_data[name]
      v2 == IF post_data[name] # PyNone THEN post_data[name] ELSE v1
  IN IF files[name] # PyNone THEN files[name] ELSE v2

\* a dict without any of the field names
EmptyDict == [n \in FieldNames |-> PyNone]

\* the handler has no attribute, and _cleaned_data no key, of this name
Unset == [t |-> "Unset", v |-> "Unset"]

\* BaseHandler._clean_fields: the exception that leaves it (only a
\* ValidationError is caught), _errors as the messages per field name (<<>>:
\* the name is not a key) and _cleaned_data
_clean_fields(fields, get_data, post_data, files) ==
  LET n == Len(fields)
      Index(name) == CHOOSE i \in 1..n : fields[i].name = name
      Ends(cleaned) ==
        LET Escapes(i) == cleaned[i].raised \notin {None, "ValidationError"}
            reached ==
              IF \E i \in 1..n : Escapes(i)
                THEN (CHOOSE i \in 1..n : Escapes(i) /\ \A j \in 1..(i - 1) : ~Escapes(j)) - 1
                ELSE n
        IN [raises |-> IF reached < n
                         THEN PlainExc(cleaned[reached + 1].raised,
                                       cleaned[reached + 1].messages[1])
                         ELSE NoExc,
            errors |-> [name \in Names(fields) |->
                          IF /\ Index(name) <= reached
                             /\ cleaned[Index(name)].raised = "ValidationError"
                            THEN cleaned[Index(name)].messages ELSE <<>>],
            cleaned_data |-> [name \in Names(fields) |->
                                IF /\ Index(name) <= reached
                                   /\ cleaned[Index(name)].raised = None
                                  THEN cleaned[Index(name)].value ELSE Unset]]
  IN Ends([i \in 1..n |->
             clean(fields[i].field,
                   _get_raw_value(fields[i].name, get_data, post_data, files))])

\* BaseHandler._replace_fields: setattr(self, name, value) for every item
\* of _cleaned_data
_replace_fields(attrs, cleaned_data) ==
  [name \in DOMAIN attrs |->
     IF cleaned_data[name] # Unset THEN cleaned_data[name] ELSE attrs[name]]

\* BaseHandler._full_clean: _clean_fields, then _replace_fields
_full_clean(fields, attrs, get_data, post_data, files) ==
  LET Ends(cleaned) ==
        [raises |-> cleaned.raises, errors |-> cleaned.errors,
         attrs |-> IF cleaned.raises # NoExc THEN attrs
                   ELSE _replace_fields(attrs, cleaned.cleaned_data)]
  IN Ends(_clean_fields(fields, get_data, post_data, files))

\* BaseHandler._get_error_list, as the set of the (name, messages) pairs
_get_error_list(errors) ==
  {<<n, errors[n]>> : n \in {m \in DOMAIN errors : errors[m] # <<>>}}

\* BaseHandler._is_valid: _full_clean, then `not bool(self._errors)`
_is_valid(fields, attrs, get_data, post_data, files) ==
  LET Ends(full) ==
        [raises |-> full.raises, errors |-> full.errors, attrs |-> full.attrs,
         value |-> /\ full.raises = NoExc
                   /\ \A name \in Names(fields) : full.errors[name] = <<>>]
  IN Ends(_full_clean(fields, attrs, get_data, post_data, files))

\* ------------------------------------------------------------- error path
NOT_FOUND_EXCEPTIONS == {"NotFound", "ObjectDoesNotExist", "Http404"}

CannedError == "Sorry, this request could not be processed. Please try again later."

\* _handle_500 that answers every exception with HttpApplicationError
_handle_500_always_500(exception, DEBUG, GET_format, GET_callback, HTTP_ACCEPT, default_format) ==
  LET data == IF DEBUG = "True" THEN Data(None, exception.msg, "traceback")
              ELSE Data(None, CannedError, None)
      format == determine_format(GET_format, GET_callback, HTTP_ACCEPT, default_format)
      serialized == _serialize(GET_callback, data, format)
  IN [raises |-> serialized.raises,
      response |-> NewResponse("HttpApplicationError", serialized.body,
                               build_content_type(format)),
      called |-> serialized.called, callback |-> serialized.callback,
      format |-> format,
      logged |-> (DEBUG # "True" /\ exception.type \notin NOT_FOUND_EXCEPTIONS)]

\* BaseHandler._handle_500: the exception it raises itself (NoExc: none), the
\* response it returns, and its call of the serializer
_handle_500(exception, DEBUG, GET_format, GET_callback, HTTP_ACCEPT, default_format) ==
  LET response_class == IF exception.type \in NOT_FOUND_EXCEPTIONS
                          THEN "HttpResponseNotFound" ELSE "HttpApplicationError"
      data == IF DEBUG = "True" THEN Data(None, exception.msg, "traceback")
              ELSE Data(None, CannedError, None)
      format == determine_format(GET_format, GET_callback, HTTP_ACCEPT, default_format)
      serialized == _serialize(GET_callback, data, format)
  IN [raises |-> serialized.raises,
      response |-> NewResponse(response_class, serialized.body,
                               build_content_type(format)),
      called |-> serialized.called, callback |-> serialized.callback,
      format |-> format,
      logged |-> (DEBUG # "True" /\ exception.type \notin NOT_FOUND_EXCEPTIONS)]

\* ------------------------------------------------------------------ state
VARIABLES
  pc,             \* where the request is in wrapper / _dispatch
  view,           \* the `view` argument given to wrap_view
  request,        \* the request attributes the code reads
  settings,       \* settings.DEBUG and settings.RESTO_FULL_DEBUG
  meta,           \* the resource's _meta: allowed_methods, default_format
  handler,        \* the handler instance: get_data, post_data, files, _errors
                  \* and the attributes set from the cleaned values
  request_method, \* the value _method_check returned
  method,         \* getattr(self, request_method, None): "None", "base", "override"
  verb_result,    \* what the verb method returned
  exc,            \* the exception in flight (NoExc: none)
  caught,         \* the exception the wrapper caught
  response,       \* the response on its way to the wrapper's caller
  trace,          \* the stages run and backends consulted, in order
  accessed,       \* the calls of throttle.accessed
  serializer_calls, \* the calls of serializer.serialize
  desired_format, \* the last result of _determine_format
  logged,         \* whether _handle_500 logged the error
  identified,     \* the requests TokenAuthentication.get_identifier was asked about
  declared_field, \* a field as a handler class declares it
  cleaned,        \* the call of declared_field.clean: raw value and outcome
  normalised,     \* a URL, URLField.to_python of it, and to_python of that
  test_handler,   \* a handler instance that is validated on its own
  heap,           \* the field objects, validator lists and message dicts
  handlers,       \* the handler instances over heap: their self.fields
  api,            \* an Api instance: _registry and _canonicals
  registered,     \* the calls of api.register, in order
  token_table,    \* the persisted Token records
  saves,          \* the calls of Token.save under way
  authenticated,  \* the last call of TokenAuthentication.is_authenticated
  authorized,     \* a request put to an authorization policy, and how _dispatch goes on
  rewritten       \* a request followed from the wrapper through convert_post_to_put

\* the state of the request that is followed through the wrapper
request_vars == <<pc, view, request, settings, meta, handler, request_method, method,
                  verb_result, exc, caught, response, trace, accessed, serializer_calls,
                  desired_format, logged>>

\* the state of the components that are exercised on their own
identifier_vars == <<identified>>
field_vars == <<declared_field, cleaned>>
url_vars == <<normalised>>
validation_vars == <<test_handler>>
copy_vars == <<heap, handlers>>
registry_vars == <<api, registered>>
token_vars == <<token_table, saves, authenticated>>
authorization_vars == <<authorized>>
conversion_vars == <<rewritten>>
component_vars == <<identifier_vars, field_vars, url_vars, validation_vars, copy_vars,
                    registry_vars, token_vars, authorization_vars, conversion_vars>>

vars == <<request_vars, component_vars>>

NoResult == [kind |-> Unread, response |-> NoResponse]

Call(name, arg, result) == [call |-> name, arg |-> arg, result |-> result]

\* the states the components start in: no field is declared and none is
\* cleaned, no URL is normalised, no handler is instantiated for validation
NoField == BaseField("None", PyNone, FALSE, <<>>)
NotCleaned == [done |-> FALSE, raw |-> PyNone, result |-> Returns(PyNone) @@ [calls |-> <<>>]]
NotNormalised ==
  [stage |-> "none", url |-> "", once |-> Returns(Str("")), twice |-> Returns(Str(""))]
NoHandler ==
  [stage |-> "none", fields |-> <<>>, data |-> <<>>, raises |-> NoExc, errors |-> <<>>,
   attrs |-> <<>>, value |-> FALSE]

\* Api.__init__: an empty _registry and empty _canonicals (None: the name is
\* no key of the dict)
ResourceNames == {"notes", "users"}
NewApi == [_registry |-> [name \in ResourceNames |-> None],
           _canonicals |-> [name \in ResourceNames |-> None]]

\* request.user before authentication
AnonymousUser == 0

NotAuthenticated ==
  [done |-> FALSE, GET_token |-> None, POST_token |-> None, require_active |-> TRUE,
   table |-> {}, value |-> None, user |-> AnonymousUser, raises |-> NoExc]

\* no request was put to an authorization policy
NotAuthorized ==
  [stage |-> "none", policy |-> None, method |-> None, is_staff |-> FALSE,
   auth_result |-> None, raises |-> NoExc, calls |-> <<>>]

\* no request has reached the wrapper
NotReceived ==
  [stage |-> "none", backend |-> None,
   request |-> [method |-> None, GET |-> [token |-> None, title |-> PyNone],
                body |-> [token |-> None, title |-> PyNone],
                POST |-> [token |-> None, title |-> PyNone],
                REMOTE_ADDR |-> None, REMOTE_HOST |-> None],
   handler |-> [get_data |-> EmptyDict, post_data |-> EmptyDict],
   raises |-> NoExc, should_be_throttled |-> <<>>, read |-> PyNone, valid |-> FALSE,
   seen |-> <<>>, accessed |-> <<>>]

\* the objects behind the class attribute base_fields: every declared field
\* refers to its list of validators and to its error_messages dict
MessageCodes == {"required", "invalid"}
ClassHeap ==
  [fields |-> [i \in 1..Len(base_fields) |->
                 [validators |-> i, error_messages |-> i,
                  default |-> base_fields[i].field.default,
                  required |-> base_fields[i].field.required]],
   lists |-> [i \in 1..Len(base_fields) |-> base_fields[i].field.validators],
   dicts |-> [i \in 1..Len(base_fields) |->
                [code \in MessageCodes |-> error_messages(base_fields[i].field, code)]]]

Init ==
  /\ pc = "received"
  /\ view = Unread
  /\ request = [method |-> Unread, GET_format |-> Unread, GET_callback |-> Unread,
                HTTP_ACCEPT |-> Unread, REMOTE_ADDR |-> Unread, REMOTE_HOST |-> Unread,
                SERVER_NAME |-> Unread, is_ajax |-> Unread]
  /\ settings = [DEBUG |-> Unread, RESTO_FULL_DEBUG |-> Unread]
  /\ meta = [allowed_methods |-> UnreadList, default_format |-> Unread]
  /\ handler = [get_data |-> [n \in FieldNames |-> Str(Unread)], post_data |-> EmptyDict,
                files |-> EmptyDict, errors |-> [n \in FieldNames |-> <<>>],
                attrs |-> [n \in FieldNames |-> Unset]]
  /\ request_method = Unread
  /\ method = Unread
  /\ verb_result = NoResult
  /\ exc = NoExc
  /\ caught = NoExc
  /\ response = NoResponse
  /\ trace = <<>>
  /\ accessed = <<>>
  /\ serializer_calls = <<>>
  /\ desired_format = Unread
  /\ logged = FALSE
  /\ identified = <<>>
  /\ declared_field = NoField
  /\ cleaned = NotCleaned
  /\ normalised = NotNormalised
  /\ test_handler = NoHandler
  /\ heap = ClassHeap
  /\ handlers = <<>>
  /\ api = NewApi
  /\ registered = <<>>
  /\ token_table = {}
  /\ saves = <<>>
  /\ authenticated = NotAuthenticated
  /\ authorized = NotAuthorized
  /\ rewritten = NotReceived

\* attributes BaseHandler instances have that a view name can resolve to
HandlerViews == {"_view", "_dispatch"}

\* wrapper, first lines: build the handler from request.GET/POST/FILES and
\* look the view up on it
WrapperBegin ==
  /\ pc = "received"
  /\ \E gd \in [FieldNames -> RawValues], v \in ViewNames :
       /\ handler' = [handler EXCEPT !.get_data = gd]
       /\ view' = v
       /\ IF v \in HandlerViews
            THEN pc' = "method_check" /\ exc' = exc
            ELSE /\ pc' = "except"
                 /\ exc' = PlainExc("AttributeError", "no attribute 'view'")
  /\ UNCHANGED component_vars
  /\ UNCHANGED <<request, settings, meta, request_method, method, verb_result,
                 caught, response, trace, accessed, serializer_calls, desired_format, logged>>

\* the implementations getattr(self, request_method, None) can find
MethodLookup(verb) == IF verb \in BaseVerbs THEN {"base", "override"} ELSE {"None", "override"}

\* _dispatch, method check and the lookup of the verb method
MethodCheck ==
  /\ pc = "method_check"
  /\ \E al \in AllowedLists, m \in Methods :
       LET r == _method_check(m, al)
       IN /\ meta' = [meta EXCEPT !.allowed_methods = al]
          /\ request' = [request EXCEPT !.method = m]
          /\ trace' = Append(trace, Call("_method_check", m, r.value))
          /\ IF r.raises # NoExc
               THEN /\ exc' = r.raises
                    /\ pc' = "except"
                    /\ UNCHANGED <<request_method, method>>
               ELSE /\ exc' = exc
                    /\ pc' = "is_authenticated"
                    /\ request_method' = r.value
                    /\ method' \in MethodLookup(r.value)
  /\ UNCHANGED component_vars
  /\ UNCHANGED <<view, settings, handler, verb_result, caught, response, accessed,
                 serializer_calls, desired_format, logged>>

\* _dispatch, self._is_authenticated(request)
IsAuthenticated ==
  /\ pc = "is_authenticated"
  /\ \E auth_result \in BackendResults :
       /\ trace' = Append(trace, Call("is_authenticated", "", auth_result))
       /\ exc' = _is_authenticated(auth_result)
       /\ pc' = IF _is_authenticated(auth_result) # NoExc THEN "except" ELSE "is_authorized"
  /\ UNCHANGED component_vars
  /\ UNCHANGED <<view, request, settings, meta, handler, request_method, method,
                 verb_result, caught, response, accessed, serializer_calls, desired_format, logged>>

\* _dispatch, self._is_authorized(request)
IsAuthorized ==
  /\ pc = "is_authorized"
  /\ \E auth_result \in BackendResults :
       /\ trace' = Append(trace, Call("is_authorized", "", auth_result))
       /\ exc' = _is_authorized(auth_result)
       /\ pc' = IF _is_authorized(auth_result) # NoExc THEN "except" ELSE "throttle_check"
  /\ UNCHANGED component_vars
  /\ UNCHANGED <<view, request, settings, meta, handler, request_method, method,
                 verb_result, caught, response, accessed, serializer_calls, desired_format, logged>>

\* _throttle_check that ignores the throttle's answer
_throttle_check_never(throttled) == NoExc

\* BaseHandler._throttle_check: the exception raised when the throttle says
\* the identifier is over its limit
_throttle_check(throttled) ==
  IF throttled
    THEN ImmediateHttpResponse(
           NewResponse("HttpTooManyRequests", TextBody(""), DefaultContentType))
    ELSE NoExc

\* _dispatch, self._throttle_check(request)
ThrottleCheck ==
  /\ pc = "throttle_check"
  /\ \E addr \in RemoteAddrs, host \in RemoteHosts, throttled \in BOOLEAN :
       /\ request' = [request EXCEPT !.REMOTE_ADDR = addr, !.REMOTE_HOST = host]
       /\ trace' = Append(trace, Call("should_be_throttled", get_identifier(addr, host),
                                      IF throttled THEN "True" ELSE "False"))
       /\ exc' = _throttle_check(throttled)
       /\ pc' = IF _throttle_check(throttled) # NoExc THEN "except" ELSE "is_valid"
  /\ UNCHANGED component_vars
  /\ UNCHANGED <<view, settings, meta, handler, request_method, method, verb_result,
                 caught, response, accessed, serializer_calls, desired_format, logged>>

\* _dispatch, convert_post_to_put(request) and self._is_valid(); an invalid
\* request is answered with http.HttpBadRequest().  (The conversion re-reads
\* the body of a PUT request into request.POST; the handler keeps the data
\* it was built with.)
Validate ==
  /\ pc = "is_valid"
  /\ LET Ends(valid) ==
           /\ handler' = [handler EXCEPT !.errors = valid.errors, !.attrs = valid.attrs]
           /\ trace' = Append(trace, Call("_is_valid", "",
                                          IF valid.raises # NoExc THEN "raises"
                                          ELSE IF valid.value THEN "True" ELSE "False"))
           /\ exc' = valid.raises
           /\ IF valid.raises # NoExc THEN pc' = "except" /\ response' = response
              ELSE IF valid.value THEN pc' = "verb" /\ response' = response
              ELSE /\ pc' = "returned"
                   /\ response' = NewResponse("HttpBadRequest", TextBody(""),
                                              DefaultContentType)
     IN Ends(_is_valid(base_fields, handler.attrs, handler.get_data, handler.post_data,
                       handler.files))
  /\ UNCHANGED component_vars
  /\ UNCHANGED <<view, request, settings, meta, request_method, method, verb_result,
                 caught, accessed, serializer_calls, desired_format, logged>>

\* what a verb method written by the resource's author can do
VerbOutcomes ==
  {"None", "data", "HttpResponse", "HttpResponse+Cache-Control",
   "raise Exception", "raise NotFound", "raise ImmediateHttpResponse"}

\* a response object built by the verb method
VerbResponse(outcome) ==
  [NewResponse("HttpResponse", TextBody("from verb"), DefaultContentType)
     EXCEPT !.CacheControl = IF outcome = "HttpResponse+Cache-Control" THEN "max-age=60" ELSE None]

\* BaseHandler.get/post/put/delete/patch
BaseVerb == ImmediateHttpResponse(
              NewResponse("HttpMethodNotAllowed", TextBody(""), DefaultContentType))

\* the exception a call of the verb method ends with (NoExc: it returns)
VerbRaises(impl, outcome) ==
  CASE impl = "None" -> PlainExc("TypeError", "'NoneType' object is not callable")
    [] impl = "base" -> BaseVerb
    [] outcome = "raise Exception" -> PlainExc("Exception", "boom")
    [] outcome = "raise NotFound" -> PlainExc("NotFound", "no such object")
    [] outcome = "raise ImmediateHttpResponse" ->
         ImmediateHttpResponse(NewResponse("HttpResponse", TextBody("immediate"),
                                           DefaultContentType))
    [] OTHER -> NoExc

\* the value a verb method returns
VerbReturns(outcome) ==
  CASE outcome = "None" -> [kind |-> "None", response |-> NoResponse]
    [] outcome = "data" -> [kind |-> "data", response |-> NoResponse]
    [] OTHER -> [kind |-> "HttpResponse", response |-> VerbResponse(outcome)]

\* _dispatch that records the access before it calls the verb method
Verb_logs_first ==
  /\ pc = "verb"
  /\ \E outcome \in (IF method = "override" THEN VerbOutcomes ELSE {method}) :
       /\ trace' = Append(trace, Call("verb", request_method, outcome))
       /\ exc' = VerbRaises(method, outcome)
       /\ IF VerbRaises(method, outcome) # NoExc
            THEN pc' = "except" /\ verb_result' = verb_result
            ELSE pc' = "respond" /\ verb_result' = VerbReturns(outcome)
  /\ accessed' = Append(accessed,
                        [identifier |-> get_identifier(request.REMOTE_ADDR, request.REMOTE_HOST),
                         url |-> "/path", request_method |-> Lower(request.method)])
  /\ UNCHANGED component_vars
  /\ UNCHANGED <<view, request, settings, meta, handler, request_method, method,
                 caught, response, serializer_calls, desired_format, logged>>

\* _dispatch, response = method(request, **kwargs)
Verb ==
  /\ pc = "verb"
  /\ \E outcome \in (IF method = "override" THEN VerbOutcomes ELSE {method}) :
       /\ trace' = Append(trace, Call("verb", request_method, outcome))
       /\ exc' = VerbRaises(method, outcome)
       /\ IF VerbRaises(method, outcome) # NoExc
            THEN pc' = "except" /\ verb_result' = verb_result
            ELSE pc' = "log_access" /\ verb_result' = VerbReturns(outcome)
  /\ UNCHANGED component_vars
  /\ UNCHANGED <<view, request, settings, meta, handler, request_method, method,
                 caught, response, accessed, serializer_calls, desired_format, logged>>

\* _dispatch, self._log_throttled_access(request)
LogAccess ==
  /\ pc = "log_access"
  /\ accessed' = Append(accessed,
                        [identifier |-> get_identifier(request.REMOTE_ADDR, request.REMOTE_HOST),
                         url |-> "/path", request_method |-> Lower(request.method)])
  /\ trace' = Append(trace, Call("accessed",
                                 get_identifier(request.REMOTE_ADDR, request.REMOTE_HOST), ""))
  /\ pc' = "respond"
  /\ UNCHANGED component_vars
  /\ UNCHANGED <<view, request, settings, meta, handler, request_method, method,
                 verb_result, exc, caught, response, serializer_calls, desired_format, logged>>

\* the values of ?format=, ?callback=, Accept and Meta.default_format: the
\* ones read before, or any when they are read for the first time
FormatInputs ==
  IF request.GET_format = Unread
    THEN [GET_format : FormatParams, GET_callback : CallbackParams,
          HTTP_ACCEPT : AcceptHeaders, default_format : DefaultFormats]
    ELSE {[GET_format |-> request.GET_format, GET_callback |-> request.GET_callback,
           HTTP_ACCEPT |-> request.HTTP_ACCEPT, default_format |-> meta.default_format]}

BindFormatInputs(in) ==
  /\ request' = [request EXCEPT !.GET_format = in.GET_format,
                                !.GET_callback = in.GET_callback,
                                !.HTTP_ACCEPT = in.HTTP_ACCEPT]
  /\ meta' = [meta EXCEPT !.default_format = in.default_format]

SerializerCall(format, callback) == [format |-> format, callback |-> callback]

\* _dispatch, from `isinstance(response, HttpResponse)` to the return
Respond ==
  /\ pc = "respond"
  /\ IF verb_result.kind = "HttpResponse"
       THEN /\ response' = verb_result.response
            /\ pc' = "returned"
            /\ UNCHANGED <<request, meta, exc, serializer_calls, desired_format>>
     ELSE IF verb_result.kind = "None"
       THEN /\ response' = NewResponse("HttpNoContent", TextBody(""), DefaultContentType)
            /\ pc' = "returned"
            /\ UNCHANGED <<request, meta, exc, serializer_calls, desired_format>>
     ELSE \E in \in FormatInputs :
            LET format == determine_format(in.GET_format, in.GET_callback,
                                           in.HTTP_ACCEPT, in.default_format)
                data == _serialize(in.GET_callback, Data("data", None, None), format)
            IN /\ BindFormatInputs(in)
               /\ desired_format' = format
               /\ serializer_calls' =
                    IF data.called
                      THEN Append(serializer_calls, SerializerCall(format, data.callback))
                      ELSE serializer_calls
               /\ IF data.raises # NoExc
                    THEN exc' = data.raises /\ pc' = "except" /\ response' = response
                    ELSE /\ exc' = exc
                         /\ pc' = "returned"
                         /\ response' = NewResponse("HttpResponse", data.body,
                                                    build_content_type(format))
  /\ UNCHANGED component_vars
  /\ UNCHANGED <<view, settings, handler, request_method, method, verb_result, caught,
                 trace, accessed, logged>>

\* django.utils.cache.patch_cache_control(response, no_cache=True)
patch_cache_control(resp) == [resp EXCEPT !.CacheControl = "no-cache"]

\* the wrapper's return without the `not response.has_header(...)` test
WrapperReturn_AlwaysPatch ==
  /\ pc = "returned"
  /\ \E ajax \in {"True", "False"} :
       /\ request' = [request EXCEPT !.is_ajax = ajax]
       /\ response' = IF ajax = "True" THEN patch_cache_control(response) ELSE response
  /\ pc' = "done"
  /\ UNCHANGED component_vars
  /\ UNCHANGED <<view, settings, meta, handler, request_method, method, verb_result,
                 exc, caught, trace, accessed, serializer_calls, desired_format, logged>>

\* wrapper, after the view returned: the Cache-Control patch for AJAX
\* requests, then `return response`
WrapperReturn ==
  /\ pc = "returned"
  /\ \E ajax \in {"True", "False"} :
       /\ request' = [request EXCEPT !.is_ajax = ajax]
       /\ response' = IF ajax = "True" /\ response.CacheControl = None
                        THEN patch_cache_control(response) ELSE response
  /\ pc' = "done"
  /\ UNCHANGED component_vars
  /\ UNCHANGED <<view, settings, meta, handler, request_method, method, verb_result,
                 exc, caught, trace, accessed, serializer_calls, desired_format, logged>>

ServerNames == {"testserver", "example.org"}

\* wrapper, `except Exception, e:` up to the call of _handle_500
WrapperExcept ==
  /\ pc = "except"
  /\ caught' = exc
  /\ IF exc.has_response
       THEN /\ response' = exc.response
            /\ exc' = NoExc
            /\ pc' = "done"
            /\ UNCHANGED <<settings, request>>
       ELSE \E debug \in {"True", "False"}, full \in {"True", "False"}, name \in ServerNames :
              /\ settings' = [DEBUG |-> debug, RESTO_FULL_DEBUG |-> full]
              /\ request' = [request EXCEPT !.SERVER_NAME = name]
              /\ response' = response
              /\ IF (debug = "True" /\ full = "True") \/ name = "testserver"
                   THEN pc' = "raised" /\ exc' = exc
                   ELSE pc' = "handle_500" /\ exc' = NoExc
  /\ UNCHANGED component_vars
  /\ UNCHANGED <<view, meta, handler, request_method, method, verb_result, trace,
                 accessed, serializer_calls, desired_format, logged>>

\* wrapper, `return resource._handle_500(request, e)`
Handle500 ==
  /\ pc = "handle_500"
  /\ \E in \in FormatInputs :
       LET h == _handle_500(caught, settings.DEBUG, in.GET_format, in.GET_callback,
                            in.HTTP_ACCEPT, in.default_format)
       IN /\ BindFormatInputs(in)
          /\ desired_format' = h.format
          /\ logged' = h.logged
          /\ serializer_calls' =
               IF h.called THEN Append(serializer_calls, SerializerCall(h.format, h.callback))
               ELSE serializer_calls
          /\ IF h.raises # NoExc
               THEN exc' = h.raises /\ pc' = "raised" /\ response' = response
               ELSE exc' = exc /\ pc' = "done" /\ response' = h.response
  /\ UNCHANGED component_vars
  /\ UNCHANGED <<view, settings, handler, request_method, method, verb_result, caught,
                 trace, accessed>>

Next ==
  \/ WrapperBegin
  \/ MethodCheck
  \/ IsAuthenticated
  \/ IsAuthorized
  \/ ThrottleCheck
  \/ Validate
  \/ Verb
  \/ LogAccess
  \/ Respond
  \/ WrapperReturn
  \/ WrapperExcept
  \/ Handle500

Spec == Init /\ [][Next]_vars

TypeOK == pc \in {"received", "method_check", "is_authenticated", "is_authorized",
                  "throttle_check", "is_valid", "verb", "log_access", "respond",
                  "returned", "except", "handle_500", "done", "raised"}

\* ------------------------------------------------- TokenAuthentication
\* requests that are followed through the throttle check
MaxCallers == 2

\* _throttle_check of a resource whose Meta.authentication is a
\* TokenAuthentication: the identifier it asks the throttle about
ThrottleKey ==
  /\ Len(identified) < MaxCallers
  /\ \E addr \in RemoteAddrs, host \in RemoteHosts, gt \in Tokens, pt \in Tokens :
       identified' = Append(identified,
                            [REMOTE_ADDR |-> addr, REMOTE_HOST |-> host,
                             token |-> extract_credentials(gt, pt),
                             identifier |-> TokenAuthentication_get_identifier(addr, host, gt, pt)])
  /\ UNCHANGED <<request_vars, field_vars, url_vars, validation_vars, copy_vars,
                 registry_vars, token_vars, authorization_vars, conversion_vars>>

IdentifierNext == ThrottleKey

IdentifierSpec == Init /\ [][IdentifierNext]_vars

\* ------------------------------------------------------- field cleaning
\* the `default` arguments of the declarations that are followed
Defaults == {PyNone, Str(""), Str(" x "), PyTrue, PyInt("7")}

\* the field declarations that are followed: every class, required and
\* optional, with each default; the text fields with and without
\* max_length=2, the number fields with and without max_value=1 and
\* min_value=3, DecimalField with and without max_digits=2 and
\* decimal_places=1
Declarations ==
  {BaseField(type, default, required, <<>>) :
     type \in {"BaseField", "BooleanField", "NullBooleanField", "FileField", "ImageField"}
                \cup TemporalFields,
     default \in Defaults, required \in BOOLEAN}
  \cup {CharField(type, max_length, <<>>, default, required, <<>>) :
          type \in CharFields, max_length \in {<<>>, <<2>>},
          default \in Defaults, required \in BOOLEAN}
  \cup {IntegerField(type, limits[1], limits[2], default, required, <<>>) :
          type \in IntegerFields, limits \in {<< <<>>, <<>> >>, << <<1>>, <<3>> >>},
          default \in Defaults, required \in BOOLEAN}
  \cup {DecimalField(<<>>, <<>>, max_digits, decimal_places, required, <<>>) :
          max_digits \in {<<>>, <<2>>}, decimal_places \in {<<>>, <<1>>},
          required \in BOOLEAN}

\* the raw values clean is called with: None (the key is missing), texts
\* as a query string carries them, and the values of Python code
RawTexts ==
  {"", "0", "1", "2", "true", "True", "false", "False", "FALSE", "on", "a", "abc", " 5 ",
   "1.5", "12.34", "nan", "a@b.co", "google.com", "http://a.b/", "1.2.3.4", "a-b",
   "2012-02-30", "2012-03-04", "10:20", "2012-03-04 10:20"}
RawInputs ==
  {PyNone, PyTrue, PyFalse, PyInt("0"), PyInt("1"), PyInt("2")} \cup {Str(s) : s \in RawTexts}

\* a field is declared (the class statement runs the constructor)
Declare ==
  /\ declared_field = NoField
  /\ \E field \in Declarations : declared_field' = field
  /\ UNCHANGED cleaned
  /\ UNCHANGED <<request_vars, identifier_vars, url_vars, validation_vars, copy_vars,
                 registry_vars, token_vars, authorization_vars, conversion_vars>>

\* field.clean(raw) is called
Clean ==
  /\ declared_field # NoField
  /\ ~cleaned.done
  /\ \E raw \in RawInputs :
       cleaned' = [done |-> TRUE, raw |-> raw, result |-> clean(declared_field, raw)]
  /\ UNCHANGED declared_field
  /\ UNCHANGED <<request_vars, identifier_vars, url_vars, validation_vars, copy_vars,
                 registry_vars, token_vars, authorization_vars, conversion_vars>>

FieldNext == Declare \/ Clean

FieldSpec == Init /\ [][FieldNext]_vars

\* ------------------------------------------------------ URL normalisation
\* the URLs that are followed: every text of at most MaxUrlLen of these
\* characters, and the URLs of the test suite
MaxUrlLen == 4
UrlChars == {"a", "1", ".", ":", "/", "?", "#", "["}
RECURSIVE UrlTexts(_)
UrlTexts(n) ==
  IF n = 0 THEN {""} ELSE UrlTexts(n - 1) \cup {t \o c : t \in UrlTexts(n - 1), c \in UrlChars}
Urls == (UrlTexts(MaxUrlLen) \ {""}) \cup {"google.com", "http://google.com/", "http:80",
                                           "localhost:8000", "HTTP://A.b/c?d#e",
                                           "////a.co"}

\* the declaration test_url = fields.URLField()
test_url == CharField("URLField", <<>>, <<>>, PyNone, TRUE, <<>>)

\* a URL is submitted
SubmitUrl ==
  /\ normalised.stage = "none"
  /\ \E url \in Urls : normalised' = [normalised EXCEPT !.stage = "submitted", !.url = url]
  /\ UNCHANGED <<request_vars, identifier_vars, field_vars, validation_vars, copy_vars,
                 registry_vars, token_vars, authorization_vars, conversion_vars>>

\* test_url.to_python(url)
NormaliseUrl ==
  /\ normalised.stage = "submitted"
  /\ normalised' = [normalised EXCEPT
                      !.stage = "once",
                      !.once = URLField_to_python(test_url, Str(normalised.url))]
  /\ UNCHANGED <<request_vars, identifier_vars, field_vars, validation_vars, copy_vars,
                 registry_vars, token_vars, authorization_vars, conversion_vars>>

\* test_url.to_python of the value the first call returned
NormaliseAgain ==
  /\ normalised.stage = "once"
  /\ normalised.once.raised = None
  /\ normalised' = [normalised EXCEPT
                      !.stage = "twice",
                      !.twice = URLField_to_python(test_url, normalised.once.value)]
  /\ UNCHANGED <<request_vars, identifier_vars, field_vars, validation_vars, copy_vars,
                 registry_vars, token_vars, authorization_vars, conversion_vars>>

UrlNext == SubmitUrl \/ NormaliseUrl \/ NormaliseAgain

UrlSpec == Init /\ [][UrlNext]_vars

\* ---------------------------------------------------- handler validation
\* the fields a handler class that is followed declares, and their names by
\* position
MaxFields == 2
AttributeNames == <<"test_a", "test_b", "test_c", "test_d">>
FieldCatalogue ==
  UNION {{CharField("CharField", <<2>>, <<>>, PyNone, required, <<>>),
          CharField("EmailField", <<>>, <<>>, PyNone, required, <<>>),
          IntegerField("IntegerField", <<>>, <<>>, PyNone, required, <<>>),
          DecimalField(<<>>, <<>>, <<>>, <<>>, required, <<>>),
          BaseField("NullBooleanField", PyNone, required, <<>>)} : required \in BOOLEAN}
HandlerClasses ==
  UNION {[1..n -> FieldCatalogue] : n \in 1..MaxFields}

\* the values of a request parameter (None: the key is missing)
HandlerRaw == {PyNone, Str(""), Str("abc"), Str("1"), Str("a@b.co")}

\* BaseHandler.__init__ for a request: the instance has the fields of its
\* class and the request's data, and nothing is validated yet
Instantiate ==
  /\ test_handler.stage = "none"
  /\ \E class \in HandlerClasses :
       LET fields == [i \in 1..Len(class) |-> [name |-> AttributeNames[i], field |-> class[i]]]
       IN \E data \in [Names(fields) -> HandlerRaw] :
            test_handler' = [stage |-> "instantiated", fields |-> fields, data |-> data,
                             raises |-> NoExc,
                             errors |-> [name \in Names(fields) |-> <<>>],
                             attrs |-> [name \in Names(fields) |-> Unset],
                             value |-> FALSE]
  /\ UNCHANGED <<request_vars, identifier_vars, field_vars, url_vars, copy_vars,
                 registry_vars, token_vars, authorization_vars, conversion_vars>>

\* handler._is_valid(): the request's data are its GET parameters
IsValid ==
  /\ test_handler.stage = "instantiated"
  /\ LET none == [name \in Names(test_handler.fields) |-> PyNone]
         Ends(valid) ==
           test_handler' = [test_handler EXCEPT
                              !.stage = "validated", !.raises = valid.raises,
                              !.errors = valid.errors, !.attrs = valid.attrs,
                              !.value = valid.value]
     IN Ends(_is_valid(test_handler.fields, test_handler.attrs, test_handler.data,
                       none, none))
  /\ UNCHANGED <<request_vars, identifier_vars, field_vars, url_vars, copy_vars,
                 registry_vars, token_vars, authorization_vars, conversion_vars>>

HandlerNext == Instantiate \/ IsValid

HandlerSpec == Init /\ [][HandlerNext]_vars

\* ----------------------------------------------------------- field copies
\* the handler instances that are followed, and the changes each one makes
\* to its fields
MaxHandlers == 2
MaxChanges == 2
FieldAttributes == {"validators", "error_messages", "default", "required"}

\* the field object of this name in the class attribute base_fields
ClassField(name) == CHOOSE i \in 1..Len(base_fields) : base_fields[i].name = name

\* BaseField.__deepcopy__: copy.copy(self) is a new object with the
\* attributes of self, the objects they refer to included; the copy then
\* gets a list of its own with the validators of self
__deepcopy__(h, self) ==
  LET result == [h.fields[self] EXCEPT !.validators = Len(h.lists) + 1]
  IN [heap |-> [h EXCEPT !.fields = Append(@, result),
                         !.lists = Append(@, h.lists[h.fields[self].validators])],
      result |-> Len(h.fields) + 1]

RECURSIVE deepcopy(_, _)
\* copy.deepcopy(self.base_fields): a dict with a __deepcopy__ of every
\* field from the i-th on, as (name, field) pairs
deepcopy(h, i) ==
  IF i > Len(base_fields) THEN [heap |-> h, fields |-> <<>>]
  ELSE LET copied == __deepcopy__(h, i)
           rest == deepcopy(copied.heap, i + 1)
       IN [heap |-> rest.heap, fields |-> <<copied.result>> \o rest.fields]

\* BaseHandler.__init__: self.fields = copy.deepcopy(self.base_fields)
NewHandler ==
  /\ Len(handlers) < MaxHandlers
  /\ LET copied == deepcopy(heap, 1)
     IN /\ heap' = copied.heap
        /\ handlers' = Append(handlers,
                              [fields |-> [name \in FieldNames |->
                                             copied.fields[ClassField(name)]],
                               changed |-> {}])
  /\ UNCHANGED <<request_vars, identifier_vars, field_vars, url_vars, validation_vars,
                 registry_vars, token_vars, authorization_vars, conversion_vars>>

\* the heap after a change of an attribute of a field object:
\* field.validators.append(validate_slug),
\* field.error_messages['required'] = ..., field.default = ...,
\* field.required = not field.required
Changed(h, field, attribute) ==
  CASE attribute = "validators" ->
         [h EXCEPT !.lists[h.fields[field].validators] = Append(@, validate_slug)]
    [] attribute = "error_messages" ->
         [h EXCEPT !.dicts[h.fields[field].error_messages]["required"] = "Changed."]
    [] attribute = "default" -> [h EXCEPT !.fields[field].default = Str("changed")]
    [] OTHER -> [h EXCEPT !.fields[field].required = ~@]

\* while it handles its request, a handler changes an attribute of one of
\* its own fields (self.fields[name])
ChangeField ==
  \E i \in 1..Len(handlers), name \in FieldNames, attribute \in FieldAttributes :
    /\ Cardinality(handlers[i].changed) < MaxChanges
    /\ <<name, attribute>> \notin handlers[i].changed
    /\ heap' = Changed(heap, handlers[i].fields[name], attribute)
    /\ handlers' = [handlers EXCEPT ![i].changed = @ \cup {<<name, attribute>>}]
    /\ UNCHANGED <<request_vars, identifier_vars, field_vars, url_vars, validation_vars,
                   registry_vars, token_vars, authorization_vars, conversion_vars>>

CopyNext == NewHandler \/ ChangeField

CopySpec == Init /\ [][CopyNext]_vars

\* ------------------------------------------------------------ Api registry
\* calls of api.register that are followed
MaxRegistered == 3

\* handler classes by their _meta.resource_name (None: the attribute is None)
ResourceClasses ==
  {[class |-> "NoteHandler", resource_name |-> "notes"],
   [class |-> "NoteHandlerV2", resource_name |-> "notes"],
   [class |-> "UserHandler", resource_name |-> "users"],
   [class |-> "Unnamed", resource_name |-> None]}

\* Api.register that keeps the class a name was registered with first
register_keeps_first(self, resource_class, canonical) ==
  LET resource_name == resource_class.resource_name
  IN IF resource_name = None
       THEN [self |-> self, warned |-> FALSE,
             raises |-> PlainExc("NameError", "global name 'resource' is not defined")]
     ELSE IF self._registry[resource_name] # None
       THEN [self |-> self, warned |-> FALSE, raises |-> NoExc]
     ELSE [self |-> [self EXCEPT !._registry[resource_name] = resource_class.class],
           warned |-> FALSE, raises |-> NoExc]

\* Api.register: the name `resource` in the two messages is bound nowhere in
\* api.py, so building either message ends with a NameError: before the
\* ImproperlyConfigured is raised for a class without resource_name, and
\* before the warning is emitted for a name that has a canonical handler
\* (then _registry is already changed and _canonicals is not yet)
register(self, resource_class, canonical) ==
  LET resource_name == resource_class.resource_name
      NameError == PlainExc("NameError", "global name 'resource' is not defined")
  IN IF resource_name = None
       THEN [self |-> self, warned |-> FALSE, raises |-> NameError]
     ELSE LET stored == [self EXCEPT !._registry[resource_name] = resource_class.class]
          IN IF ~canonical THEN [self |-> stored, warned |-> FALSE, raises |-> NoExc]
             ELSE IF stored._canonicals[resource_name] # None
               THEN [self |-> stored, warned |-> FALSE, raises |-> NameError]
             ELSE [self |-> [stored EXCEPT !._canonicals[resource_name] =
                                            resource_class.class],
                   warned |-> FALSE, raises |-> NoExc]

\* api.register(resource_class, canonical=canonical)
Register ==
  /\ Len(registered) < MaxRegistered
  /\ \E resource_class \in ResourceClasses, canonical \in BOOLEAN :
       LET Ends(call) ==
             /\ api' = call.self
             /\ registered' =
                  Append(registered,
                         [resource_class |-> resource_class, canonical |-> canonical,
                          replaces |-> /\ resource_class.resource_name # None
                                       /\ api._canonicals[resource_class.resource_name] # None,
                          warned |-> call.warned, raises |-> call.raises])
       IN Ends(register(api, resource_class, canonical))
  /\ UNCHANGED <<request_vars, identifier_vars, field_vars, url_vars, validation_vars,
                 copy_vars, token_vars, authorization_vars, conversion_vars>>

RegistryNext == Register

RegistrySpec == Init /\ [][RegistryNext]_vars

\* ----------------------------------------------------------- Token records
\* calls of Token.save that are followed; each is for a user of its own
\* (Token.user is a OneToOneField)
MaxSaves == 2

\* the hexdigests hmac.new(str(uuid.uuid4()), digestmod=sha1) can give
KeySpace == {"k1", "k2"}

\* token_exist: Token.objects.filter(token=token_value).exists()
token_exist(table, token_value) == \E record \in table : record.token = token_value

\* Token.generate_key: the keys the loop can end with, those that no record
\* holds when it looks
generate_key(table) == {key \in KeySpace : ~token_exist(table, key)}

\* Authentication.check_active
check_active(require_active, user) == IF ~require_active THEN TRUE ELSE user.is_active

\* TokenAuthentication.is_authenticated: the value returned, request.user
\* afterwards and the exception that leaves it.  get_key catches only
\* Token.DoesNotExist, so Token.objects.get ends with MultipleObjectsReturned
\* when several records hold the token
is_authenticated(table, GET_token, POST_token, require_active) ==
  LET token == extract_credentials(GET_token, POST_token)
      found == {record \in table : record.token = token}
      Ends(record) ==
        IF ~check_active(require_active, record)
          THEN [value |-> "False", user |-> AnonymousUser, raises |-> NoExc]
          ELSE [value |-> "True", user |-> record.user, raises |-> NoExc]
  IN IF token \in {None, ""}
       THEN [value |-> "HttpUnauthorized", user |-> AnonymousUser, raises |-> NoExc]
     ELSE IF found = {} THEN [value |-> "False", user |-> AnonymousUser, raises |-> NoExc]
     ELSE IF Cardinality(found) > 1
       THEN [value |-> None, user |-> AnonymousUser,
             raises |-> PlainExc("MultipleObjectsReturned", "get() returned more than one Token")]
     ELSE Ends(CHOOSE record \in found : TRUE)

\* Token(user=..., token=...).save() is called
BeginSave ==
  /\ Len(saves) < MaxSaves
  /\ \E token \in {""} \cup KeySpace, is_active \in BOOLEAN :
       saves' = Append(saves, [user |-> Len(saves) + 1, is_active |-> is_active,
                               given |-> token, token |-> token, pc |-> "save"])
  /\ UNCHANGED <<token_table, authenticated>>
  /\ UNCHANGED <<request_vars, identifier_vars, field_vars, url_vars, validation_vars,
                 copy_vars, registry_vars, authorization_vars, conversion_vars>>

\* Token.save up to the call of Model.save: an empty token is replaced by
\* generate_key(), whose last look at the table found no record with the key
GenerateKey(i) ==
  /\ saves[i].pc = "save"
  /\ IF saves[i].token = ""
       THEN \E key \in generate_key(token_table) :
              saves' = [saves EXCEPT ![i].token = key, ![i].pc = "insert"]
       ELSE saves' = [saves EXCEPT ![i].pc = "insert"]
  /\ UNCHANGED <<token_table, authenticated>>
  /\ UNCHANGED <<request_vars, identifier_vars, field_vars, url_vars, validation_vars,
                 copy_vars, registry_vars, authorization_vars, conversion_vars>>

\* Token.save, super(Token, self).save(): the record is inserted
Insert(i) ==
  /\ saves[i].pc = "insert"
  /\ token_table' = token_table \cup {[user |-> saves[i].user, token |-> saves[i].token,
                                       is_active |-> saves[i].is_active]}
  /\ saves' = [saves EXCEPT ![i].pc = "saved"]
  /\ UNCHANGED authenticated
  /\ UNCHANGED <<request_vars, identifier_vars, field_vars, url_vars, validation_vars,
                 copy_vars, registry_vars, authorization_vars, conversion_vars>>

\* a request is put to TokenAuthentication(require_active).is_authenticated
Authenticate ==
  /\ \E GET_token \in Tokens, POST_token \in Tokens, require_active \in BOOLEAN :
       LET Ends(result) ==
             authenticated' = [done |-> TRUE, GET_token |-> GET_token,
                               POST_token |-> POST_token, require_active |-> require_active,
                               table |-> token_table, value |-> result.value, user |-> result.user,
                               raises |-> result.raises]
       IN Ends(is_authenticated(token_table, GET_token, POST_token, require_active))
  /\ UNCHANGED <<token_table, saves>>
  /\ UNCHANGED <<request_vars, identifier_vars, field_vars, url_vars, validation_vars,
                 copy_vars, registry_vars, authorization_vars, conversion_vars>>

TokenNext ==
  \/ BeginSave
  \/ \E i \in 1..Len(saves) : GenerateKey(i)
  \/ \E i \in 1..Len(saves) : Insert(i)
  \/ Authenticate

TokenSpec == Init /\ [][TokenNext]_vars

\* ------------------------------------------------------------ Authorization
\* request.method as Django gives it
HttpVerbs == {"GET", "HEAD", "OPTIONS", "POST", "PUT", "DELETE", "PATCH"}

\* the policies of authorization.py, and one written by the resource's
\* author that returns what it likes
Policies ==
  {"Authorization", "ReadOnlyAuthorization", "ReadWriteAuthorization",
   "AdminAuthorization", "custom"}

\* ReadWriteAuthorization.allowed_method
allowed_method == {"GET", "POST"}

\* is_authorized with a ReadWriteAuthorization that lets PUT through as well
is_authorized_with_put(policy, verb, is_staff, custom) ==
  CASE policy = "Authorization" -> "True"
    [] policy = "ReadOnlyAuthorization" -> IF verb = "GET" THEN "True" ELSE "False"
    [] policy = "ReadWriteAuthorization" ->
         IF verb \in allowed_method \cup {"PUT"} THEN "True" ELSE "False"
    [] policy = "AdminAuthorization" -> IF is_staff THEN "True" ELSE "False"
    [] OTHER -> custom

\* is_authorized of each policy class, for request.method and
\* request.user.is_staff
is_authorized(policy, verb, is_staff, custom) ==
  CASE policy = "Authorization" -> "True"
    [] policy = "ReadOnlyAuthorization" -> IF verb = "GET" THEN "True" ELSE "False"
    [] policy = "ReadWriteAuthorization" ->
         IF verb \in allowed_method THEN "True" ELSE "False"
    [] policy = "AdminAuthorization" -> IF is_staff THEN "True" ELSE "False"
    [] OTHER -> custom

\* _dispatch, self._is_authorized(request): the policy is asked and its
\* answer is turned into an exception or not
Authorize ==
  /\ authorized.stage = "none"
  /\ \E policy \in Policies, verb \in HttpVerbs, is_staff \in BOOLEAN,
        custom \in BackendResults :
       LET Ends(auth_result) ==
             authorized' =
               [stage |-> IF _is_authorized(auth_result) # NoExc THEN "raised"
                          ELSE "throttle_check",
                policy |-> policy, method |-> verb, is_staff |-> is_staff,
                auth_result |-> auth_result, raises |-> _is_authorized(auth_result),
                calls |-> <<"is_authorized">>]
       IN Ends(is_authorized(policy, verb, is_staff,
                             IF policy = "custom" THEN custom ELSE None))
  /\ UNCHANGED <<request_vars, identifier_vars, field_vars, url_vars, validation_vars,
                 copy_vars, registry_vars, token_vars, conversion_vars>>

\* _dispatch, self._throttle_check(request) after the authorization
AuthorizedThrottleCheck ==
  /\ authorized.stage = "throttle_check"
  /\ \E throttled \in BOOLEAN :
       authorized' =
         [authorized EXCEPT
            !.stage = IF _throttle_check(throttled) # NoExc THEN "raised" ELSE "verb",
            !.raises = _throttle_check(throttled),
            !.calls = Append(@, "should_be_throttled")]
  /\ UNCHANGED <<request_vars, identifier_vars, field_vars, url_vars, validation_vars,
                 copy_vars, registry_vars, token_vars, conversion_vars>>

\* _dispatch, the call of the verb method
AuthorizedVerb ==
  /\ authorized.stage = "verb"
  /\ authorized' = [authorized EXCEPT !.stage = "returned", !.calls = Append(@, "verb")]
  /\ UNCHANGED <<request_vars, identifier_vars, field_vars, url_vars, validation_vars,
                 copy_vars, registry_vars, token_vars, conversion_vars>>

AuthorizationNext ==
  \/ Authorize
  \/ AuthorizedThrottleCheck
  \/ AuthorizedVerb

AuthorizationSpec == Init /\ [][AuthorizationNext]_vars

\* ------------------------------------------------------ convert_post_to_put
\* the authentication backends of authentication.py
Backends ==
  {"Authentication", "TokenAuthentication", "CookieAuthentication",
   "AnonymousAuthentication"}

\* request.method of the requests that are followed, as Django gives it
ConvertedVerbs == {"GET", "POST", "PUT", "DELETE", "PATCH"}

\* the Token records of the requests that are followed
PersistedTokens == {[user |-> 1, token |-> "k1", is_active |-> TRUE]}

\* the parameters of a query string or a form body: the token and the value
\* of the field `title` (None, PyNone: the key is missing)
Parameters == [token : Tokens, title : RawValues]
NoParameters == [token |-> None, title |-> PyNone]

\* the parameters as the dict the handler reads field values from
AsData(parameters) ==
  [name \in FieldNames |-> IF name = "title" THEN parameters.title ELSE PyNone]

\* HttpRequest._load_post_and_files: only the body of a POST request is
\* parsed into request.POST
_load_post_and_files(verb, body) == IF verb = "POST" THEN body ELSE NoParameters

\* convert_post_to_VERB: for a request of this verb, request.POST is loaded
\* again with request.method set to "POST" meanwhile
convert_post_to_VERB(req, verb) ==
  IF req.method = verb
    THEN [req EXCEPT !.POST = _load_post_and_files("POST", req.body)]
    ELSE req

convert_post_to_put(req) == convert_post_to_VERB(req, "PUT")

\* self._meta.authentication.get_identifier(request)
backend_get_identifier(backend, req) ==
  IF backend = "TokenAuthentication"
    THEN TokenAuthentication_get_identifier(req.REMOTE_ADDR, req.REMOTE_HOST,
                                            req.GET.token, req.POST.token)
    ELSE get_identifier(req.REMOTE_ADDR, req.REMOTE_HOST)

\* self._meta.authentication.is_authenticated(request); logged_in is
\* request.user.is_authenticated() of the session's user
backend_is_authenticated(backend, req, logged_in) ==
  CASE backend = "TokenAuthentication" ->
         is_authenticated(PersistedTokens, req.GET.token, req.POST.token, TRUE).value
    [] backend = "CookieAuthentication" -> IF logged_in THEN "True" ELSE "False"
    [] OTHER -> "True"

\* wrapper: resource_class(request.GET, request.POST, request.FILES), for a
\* request of a resource that allows the verb and authorizes the caller
Construct ==
  /\ rewritten.stage = "none"
  /\ \E verb \in ConvertedVerbs, backend \in Backends, query \in Parameters,
        body \in Parameters, addr \in RemoteAddrs :
       LET post == _load_post_and_files(verb, body)
       IN rewritten' =
            [rewritten EXCEPT
               !.stage = "is_authenticated",
               !.backend = backend,
               !.request = [method |-> verb, GET |-> query, body |-> body, POST |-> post,
                            REMOTE_ADDR |-> addr, REMOTE_HOST |-> None],
               !.handler = [get_data |-> AsData(query), post_data |-> AsData(post)]]
  /\ UNCHANGED <<request_vars, identifier_vars, field_vars, url_vars, validation_vars,
                 copy_vars, registry_vars, token_vars, authorization_vars>>

\* _dispatch, self._is_authenticated(request)
CheckIdentity ==
  /\ rewritten.stage = "is_authenticated"
  /\ \E logged_in \in BOOLEAN :
       LET Ends(raises) ==
             rewritten' = [rewritten EXCEPT
                             !.stage = IF raises # NoExc THEN "raised" ELSE "throttle_check",
                             !.raises = raises]
       IN Ends(_is_authenticated(
                 backend_is_authenticated(rewritten.backend, rewritten.request, logged_in)))
  /\ UNCHANGED <<request_vars, identifier_vars, field_vars, url_vars, validation_vars,
                 copy_vars, registry_vars, token_vars, authorization_vars>>

\* _dispatch, self._throttle_check(request)
CheckThrottle ==
  /\ rewritten.stage = "throttle_check"
  /\ \E throttled \in BOOLEAN :
       rewritten' =
         [rewritten EXCEPT
            !.stage = IF throttled THEN "raised" ELSE "convert",
            !.raises = _throttle_check(throttled),
            !.should_be_throttled =
               <<backend_get_identifier(rewritten.backend, rewritten.request)>>]
  /\ UNCHANGED <<request_vars, identifier_vars, field_vars, url_vars, validation_vars,
                 copy_vars, registry_vars, token_vars, authorization_vars>>

\* _dispatch, request = convert_post_to_put(request) and self._is_valid():
\* the fields are cleaned from the data the handler was built with
ConvertAndValidate ==
  /\ rewritten.stage = "convert"
  /\ LET none == [name \in FieldNames |-> PyNone]
         Ends(valid) ==
           rewritten' =
             [rewritten EXCEPT
                !.stage = IF valid.raises # NoExc THEN "raised"
                          ELSE IF valid.value THEN "verb" ELSE "returned",
                !.raises = valid.raises,
                !.request = convert_post_to_put(rewritten.request),
                !.read = _get_raw_value("title", rewritten.handler.get_data,
                                        rewritten.handler.post_data, none),
                !.valid = valid.value]
     IN Ends(_is_valid(base_fields, [name \in FieldNames |-> Unset],
                       rewritten.handler.get_data, rewritten.handler.post_data, none))
  /\ UNCHANGED <<request_vars, identifier_vars, field_vars, url_vars, validation_vars,
                 copy_vars, registry_vars, token_vars, authorization_vars>>

\* _dispatch, response = method(request, **kwargs): what the verb method
\* finds in request.POST
CallVerb ==
  /\ rewritten.stage = "verb"
  /\ rewritten' = [rewritten EXCEPT !.stage = "log_access",
                                    !.seen = <<rewritten.request.POST>>]
  /\ UNCHANGED <<request_vars, identifier_vars, field_vars, url_vars, validation_vars,
                 copy_vars, registry_vars, token_vars, authorization_vars>>

\* _dispatch, self._log_throttled_access(request)
LogThrottledAccess ==
  /\ rewritten.stage = "log_access"
  /\ rewritten' =
       [rewritten EXCEPT
          !.stage = "returned",
          !.accessed = <<backend_get_identifier(rewritten.backend, rewritten.request)>>]
  /\ UNCHANGED <<request_vars, identifier_vars, field_vars, url_vars, validation_vars,
                 copy_vars, registry_vars, token_vars, authorization_vars>>

ConversionNext ==
  \/ Construct
  \/ CheckIdentity
  \/ CheckThrottle
  \/ ConvertAndValidate
  \/ CallVerb
  \/ LogThrottledAccess

ConversionSpec == Init /\ [][ConversionNext]_vars

\* ================================================================ claims
\* the stages of _dispatch, by the name of the call each one makes
StageOrder ==
  <<"_method_check", "is_authenticated", "is_authorized", "should_be_throttled",
    "_is_valid", "verb", "accessed">>

\* the stage let the request through
StagePassed(c) ==
  CASE c.call = "_method_check" -> c.result # None
    [] c.call \in {"is_authenticated", "is_authorized"} -> c.result = "True"
    [] c.call = "should_be_throttled" -> c.result = "False"
    [] c.call = "_is_valid" -> c.result = "True"
    [] OTHER -> TRUE

\* str.lower and str.upper of the verbs, written out
ExpectedLower(m) ==
  ("GET" :> "get" @@ "get" :> "get" @@ "PUT" :> "put" @@ "POST" :> "post" @@
   "HEAD" :> "head" @@ "OPTIONS" :> "options" @@ "Options" :> "options")[m]

ExpectedUpper(v) ==
  ("get" :> "GET" @@ "put" :> "PUT" @@ "head" :> "HEAD" @@ "options" :> "OPTIONS")[v]

RECURSIVE ExpectedAllow(_)
\* the Allow header for a list of allowed verbs: uppercased, in the list's
\* order, separated by commas
ExpectedAllow(l) ==
  IF l = NoneList \/ l = <<>> THEN ""
  ELSE IF Len(l) = 1 THEN ExpectedUpper(l[1])
  ELSE ExpectedAllow(SubSeq(l, 1, Len(l) - 1)) \o "," \o ExpectedUpper(l[Len(l)])

\* the response that ends the request, while it travels as an exception and
\* once the wrapper has returned it
EndingResponse == IF pc = "except" THEN exc.response ELSE response

\* C1: the stages run in the order method check, authentication,
\* authorization, throttle check, field validation, verb method (then the
\* throttle's accessed), and a stage runs only if every stage before it let
\* the request through.
C1_StagesInOrder ==
  /\ Len(trace) <= Len(StageOrder)
  /\ \A i \in 1..Len(trace) : trace[i].call = StageOrder[i]
  /\ \A i \in 1..(Len(trace) - 1) : StagePassed(trace[i])

\* authorization refused a request that authentication had accepted: the
\* request ended there with a 401
C1_Witness ==
  /\ pc = "done"
  /\ Len(trace) = 3
  /\ trace[2].result = "True"
  /\ trace[3].call = "is_authorized" /\ trace[3].result = "False"
  /\ Status(response) = 401

\* C2: an OPTIONS request ends in the method check, whatever allowed_methods
\* is: no other stage runs, and the response's Allow header is the allowed
\* verbs uppercased and comma-joined, the value a 405 of the same resource
\* carries.
C2_OptionsShortCircuit ==
  request.method \in {"OPTIONS", "Options"} =>
    /\ Len(trace) = 1
    /\ pc \in {"except", "done"}
    /\ EndingResponse.Allow = ExpectedAllow(meta.allowed_methods)
    /\ EndingResponse.Allow =
         _method_check("POST", meta.allowed_methods).raises.response.Allow

\* an OPTIONS request to a resource that allows options and get was answered
C2_Witness ==
  /\ pc = "done"
  /\ request.method = "Options"
  /\ meta.allowed_methods = <<"options", "get">>
  /\ response.Allow = "OPTIONS,GET"
  /\ Len(trace) = 1

\* the method check's verdict on a verb outside allowed_methods
C3_NotAllowed ==
  LET m == ExpectedLower(request.method)
      al == IF meta.allowed_methods = NoneList THEN <<>> ELSE meta.allowed_methods
  IN (m # "options" /\ ~InList(m, al)) =>
       /\ Len(trace) = 1
       /\ pc \in {"except", "done"}
       /\ Status(EndingResponse) = 405
       /\ EndingResponse.Allow = ExpectedAllow(al)

\* C3 as stated: a verb that is not OPTIONS and not allowed gets a 405 with
\* the Allow header, and for EVERY verb in allowed_methods the method check
\* raises nothing and returns the lowercased verb.
C3_Original ==
  Len(trace) >= 1 =>
    /\ C3_NotAllowed
    /\ InList(ExpectedLower(request.method), meta.allowed_methods) =>
         /\ request_method = ExpectedLower(request.method)
         /\ trace[1].result = ExpectedLower(request.method)

\* C3 amended: a verb that is not OPTIONS and not allowed gets a 405 with the
\* Allow header, and for every verb other than OPTIONS that is in
\* allowed_methods the method check raises nothing and returns the lowercased
\* verb.
C3_MethodCheck ==
  Len(trace) >= 1 =>
    /\ C3_NotAllowed
    /\ (ExpectedLower(request.method) # "options"
        /\ InList(ExpectedLower(request.method), meta.allowed_methods)) =>
         /\ request_method = ExpectedLower(request.method)
         /\ trace[1].result = ExpectedLower(request.method)
         /\ (Len(trace) = 1 => pc = "is_authenticated" /\ exc = NoExc)

\* a POST to a resource that allows put and get ended as a 405 whose Allow
\* header keeps the configured order
C3_Witness ==
  /\ pc = "done"
  /\ request.method = "POST"
  /\ meta.allowed_methods = <<"put", "get">>
  /\ Status(response) = 405
  /\ response.Allow = "PUT,GET"

\* C4: after authentication the request goes on only when the backend
\* returned exactly True; a response object returned by the backend reaches
\* the caller as it is; any other result gives the caller a 401; in both
\* failure cases no later stage runs.
C4_Authentication ==
  Len(trace) >= 2 =>
    LET r == trace[2].result
    IN /\ trace[2].call = "is_authenticated"
       /\ (r = "True") <=> (Len(trace) >= 3 \/ pc = "is_authorized")
       /\ r # "True" => Len(trace) = 2 /\ pc \in {"except", "done"}
       /\ r = "HttpResponse" =>
            EndingResponse = NewResponse("HttpResponse", TextBody("authentication"),
                                         DefaultContentType)
       /\ r \in {"False", "None", "1"} =>
            Status(EndingResponse) = 401 /\ EndingResponse.class = "HttpUnauthorized"

\* the backend returned the truthy value 1, which is not True: the caller
\* got a 401
C4_Witness ==
  /\ pc = "done"
  /\ Len(trace) = 2
  /\ trace[2].result = "1"
  /\ Status(response) = 401

\* field validation found at least one failing field
ValidationFailed ==
  /\ Len(trace) >= 5
  /\ trace[5].call = "_is_valid" /\ trace[5].result = "False"

\* C5 as stated: when a field fails cleaning the answer is a 400 whose body
\* carries the per-field error detail (so the body is not empty), the verb
\* method is not invoked and no throttle access is recorded.
C5_Original ==
  ValidationFailed =>
    /\ pc \in {"returned", "done"}
    /\ Status(response) = 400
    /\ response.content.text \notin {"", None}
    /\ Len(trace) = 5
    /\ accessed = <<>>

\* the wrapper is through with a request whose verb method returned
VerbReturned == pc \in {"done", "raised"} /\ verb_result.kind # Unread

\* the 200 response for native data serialized in the negotiated format
C6_Serialized ==
  /\ pc = "done"
  /\ Status(response) = 200
  /\ response.content.payload = "data"
  /\ response.content.format = desired_format
  /\ response.content_type = desired_format \o "; charset=utf-8"

C7_FormatPriority ==
  desired_format # Unread =>
    LET f == request.GET_format
        cb == request.GET_callback
        acc == request.HTTP_ACCEPT
        named == f \in {"json", "jsonp", "xml"}
    IN /\ f = "json" => desired_format = "application/json"
       /\ f = "jsonp" => desired_format = "text/javascript"
       /\ (~named /\ cb # None) => desired_format = "text/javascript"
       /\ (~named /\ cb = None /\ acc \in {"application/json", "text/javascript"}) =>
            desired_format = acc
       /\ (~named /\ cb = None /\ acc \in {None, "*/*", "text/html"}) =>
            desired_format = meta.default_format

\* ?format=json with a callback and an Accept header asking for JavaScript:
\* the JSON MIME type was chosen and the response built with it
C7_Witness ==
  /\ pc = "done"
  /\ request.GET_format = "json"
  /\ request.GET_callback = "cb"
  /\ request.HTTP_ACCEPT = "text/javascript"
  /\ desired_format = "application/json"
  /\ response.content_type = "application/json; charset=utf-8"

\* C8 as stated: a request whose output format is JSONP and whose callback
\* is not a valid name gets a 400 from the wrapper, and the serializer is
\* never called with that callback (the request passed every check and its
\* verb method returned data to serialize).
C8_Original ==
  (pc \in {"done", "raised"} /\ verb_result.kind = "data"
     /\ desired_format = "text/javascript" /\ request.GET_callback = "bad()") =>
    /\ pc = "done"
    /\ Status(response) = 400
    /\ \A i \in 1..Len(serializer_calls) : serializer_calls[i].callback # "bad()"

\* the wrapper caught an exception that carries no response and is through
\* with the request
CaughtPlain == pc \in {"done", "raised"} /\ caught # NoExc /\ ~caught.has_response

\* the wrapper's conditions for raising the exception again
Reraise ==
  \/ settings.DEBUG = "True" /\ settings.RESTO_FULL_DEBUG = "True"
  \/ request.SERVER_NAME = "testserver"

\* the error response: 404 for a not-found exception and 500 otherwise, the
\* body serialized in the negotiated format, with message and stack trace
\* under DEBUG and the canned message otherwise
C9_ErrorResponse ==
  /\ pc = "done"
  /\ Status(response) = IF caught.type \in {"NotFound", "ObjectDoesNotExist", "Http404"}
                          THEN 404 ELSE 500
  /\ response.content.format = desired_format
  /\ response.content_type = desired_format \o "; charset=utf-8"
  /\ IF settings.DEBUG = "True"
       THEN response.content.error = caught.msg /\ response.content.traceback # None
       ELSE response.content.error = CannedError /\ response.content.traceback = None

ExpectedIdentifier ==
  CASE request.REMOTE_ADDR = None /\ request.REMOTE_HOST = None -> "noaddr_nohost"
    [] request.REMOTE_ADDR = None /\ request.REMOTE_HOST = "example.org" -> "noaddr_example.org"
    [] request.REMOTE_ADDR = "10.0.0.1" /\ request.REMOTE_HOST = None -> "10.0.0.1_nohost"
    [] OTHER -> "10.0.0.1_example.org"

\* C10: when should_be_throttled answers true for the identifier that
\* get_identifier gives, the request ends with a 429: validation and the
\* verb method do not run and throttle.accessed is not called.
C10_Throttled ==
  (Len(trace) >= 4 /\ trace[4].result = "True") =>
    /\ trace[4].call = "should_be_throttled"
    /\ trace[4].arg = ExpectedIdentifier
    /\ Len(trace) = 4
    /\ accessed = <<>>
    /\ pc \in {"except", "done"}
    /\ Status(EndingResponse) = 429

\* a throttled request from 10.0.0.1 got its 429
C10_Witness ==
  /\ pc = "done"
  /\ Len(trace) = 4
  /\ trace[4].result = "True"
  /\ trace[4].arg = "10.0.0.1_nohost"
  /\ Status(response) = 429
  /\ accessed = <<>>

\* a request presents a token when extract_credentials gives a non-empty one
PresentsToken(r) == r.token \notin {None, ""}

\* C11: the throttle key of a TokenAuthentication resource is derived from
\* the token and not from the network address: two requests presenting the
\* same token get the same identifier whatever their REMOTE_ADDR and
\* REMOTE_HOST are, and two requests presenting different tokens from the
\* same address get different identifiers.
C11_Original ==
  \A i, j \in 1..Len(identified) :
    LET a == identified[i]
        b == identified[j]
    IN (PresentsToken(a) /\ PresentsToken(b)) =>
         /\ a.token = b.token => a.identifier = b.identifier
         /\ (a.token # b.token /\ a.REMOTE_ADDR = b.REMOTE_ADDR)
              => a.identifier # b.identifier

\* ------------------------------------------------------- field cleaning
\* clean was called with an empty raw value (None: the key is missing)
CleanedEmpty == cleaned.done /\ cleaned.raw \in EMPTY_VALUES

\* the cleaning ended with the ValidationError of the 'required' message
RequiredError(result) ==
  result.raised = "ValidationError" /\ result.messages = <<"This field is required.">>

C13_Original ==
  /\ CleanedEmpty /\ ~declared_field.required
  /\ declared_field.type # "DecimalField" /\ declared_field.default # PyNone
  => cleaned.result.raised = None /\ cleaned.result.value = declared_field.default

\* the raw values that spell zero or false, and the values BooleanField
\* takes as False: those, and the values Python counts as false
ZeroOrFalse == {Str("0"), Str("false"), Str("False"), Str("FALSE")}
FalseInputs == ZeroOrFalse \cup {Str(""), PyNone, PyFalse, PyInt("0")}

\* a BooleanField was cleaned
CleanedBoolean == cleaned.done /\ declared_field.type = "BooleanField"

NullTrueInputs == {PyTrue, PyInt("1"), Str("True"), Str("1")}
NullFalseInputs == {PyFalse, PyInt("0"), Str("False"), Str("0")}

PlainHost(url) == AllIn(url, LowerChars \o DigitChars \o ".")

\* C16 as the claim states it: URLField.to_python normalises a non-empty
\* URL: a missing scheme becomes http, without a network location the path
\* is taken as the network location, and an empty path becomes "/", so that
\* "google.com" gives "http://google.com/"; normalising the normalised URL
\* again returns it unchanged
C16_Original ==
  LET url == normalised.url
      once == normalised.once
  IN /\ normalised.stage \in {"once", "twice"} /\ once.raised = None =>
          /\ urlsplit(once.value.v).scheme
               = (IF urlsplit(url).scheme = "" THEN "http" ELSE urlsplit(url).scheme)
          /\ urlsplit(once.value.v).path # ""
          /\ PlainHost(url) => once.value = Str("http://" \o url \o "/")
          /\ url = "google.com" => once.value = Str("http://google.com/")
     /\ normalised.stage = "twice" => normalised.twice = once

\* BaseField.clean was called: by Clean itself or, for an EmailField, by
\* EmailField.clean after a to_python call of its own, with the stripped
\* text
BaseCleanCalled ==
  cleaned.done /\ (declared_field.type = "EmailField" => Len(cleaned.result.calls) > 1)
BaseCleanValue ==
  IF declared_field.type = "EmailField"
    THEN Str(strip(to_python(declared_field, cleaned.raw).value.v))
    ELSE cleaned.raw
BaseCleanCalls ==
  IF declared_field.type = "EmailField" THEN Tail(cleaned.result.calls)
  ELSE cleaned.result.calls

\* the three methods of clean, and the calls of a log that are method calls
\* and validator calls
CleanMethods == <<"to_python", "validate", "run_validators">>
IsMethod(call) == \E i \in 1..3 : CleanMethods[i] = call
IsValidator(call) == ~IsMethod(call)
MethodCalls(calls) == SelectSeq(calls, IsMethod)
ValidatorCalls(calls) == SelectSeq(calls, IsValidator)

\* C18: BaseField.clean runs to_python, then validate, then run_validators
\* and stops at the first of the three that raises; run_validators calls
\* every validator of the field even after one has failed and raises one
\* validation error with the messages of all failing validators in list
\* order; it calls no validator when the value is empty
C18_CleanOrder ==
  LET field == declared_field
      result == cleaned.result
      converted == to_python(field, BaseCleanValue)
      validated == validate(field, converted.value)
      n == Len(field.validators)
      Outcome(i) == CallValidator(field.validators[i], converted.value)
      Failed(i) == Outcome(i).raised = "ValidationError"
      failing == SelectSeq([i \in 1..n |-> i], Failed)
      methods == MethodCalls(BaseCleanCalls)
      called == ValidatorCalls(BaseCleanCalls)
  IN BaseCleanCalled =>
       /\ BaseCleanCalls = methods \o called
       /\ methods = IF converted.raised # None THEN SubSeq(CleanMethods, 1, 1)
                    ELSE IF validated.raised # None THEN SubSeq(CleanMethods, 1, 2)
                    ELSE CleanMethods
       /\ converted.raised # None =>
            result.raised = converted.raised /\ result.messages = converted.messages
       /\ converted.raised = None /\ validated.raised # None =>
            result.raised = validated.raised /\ result.messages = validated.messages
       /\ methods = CleanMethods /\ converted.value \in EMPTY_VALUES =>
            called = <<>> /\ result.raised = None /\ result.value = converted.value
       /\ /\ methods = CleanMethods /\ converted.value \notin EMPTY_VALUES
          /\ \A i \in 1..n : Outcome(i).raised \in {None, "ValidationError"}
          => /\ called = [i \in 1..n |-> field.validators[i].kind]
             /\ IF failing = <<>>
                  THEN result.raised = None /\ result.value = converted.value
                  ELSE /\ result.raised = "ValidationError"
                       /\ result.messages =
                            [k \in 1..Len(failing) |->
                               CollectedMessage(field, field.validators[failing[k]],
                                                Outcome(failing[k]).code)]

\* IntegerField(max_value=1, min_value=3) was cleaned with "2": both
\* validators were called and both messages are in the error
C18_Witness ==
  /\ cleaned.done /\ declared_field.type = "IntegerField" /\ cleaned.raw = Str("2")
  /\ cleaned.result.calls = CleanMethods \o <<"MaxValueValidator", "MinValueValidator">>
  /\ cleaned.result.raised = "ValidationError"
  /\ cleaned.result.messages =
       <<"Ensure this value is less than or equal to limit_value.",
         "Ensure this value is greater than or equal to limit_value.">>

\* ---------------------------------------------------- handler validation
\* how the cleaning of the field of this name ends for the handler's data
CleanOf(name) ==
  LET i == CHOOSE i \in 1..Len(test_handler.fields) : test_handler.fields[i].name = name
  IN clean(test_handler.fields[i].field, test_handler.data[name])

\* the names of the fields whose cleaning fails
FailingFields == {name \in Names(test_handler.fields) : CleanOf(name).raised # None}

\* C17 as the claim states it: handler validation cleans every declared
\* field even after an earlier one has failed: _is_valid returns True
\* exactly when no field failed, and then every field's cleaned value is the
\* handler attribute of its name; otherwise the error map has exactly the
\* names of all failing fields as keys, each with that field's messages
C17_Original ==
  test_handler.stage = "validated" =>
    /\ test_handler.raises = NoExc
    /\ test_handler.value <=> FailingFields = {}
    /\ test_handler.value =>
         \A name \in Names(test_handler.fields) :
           test_handler.attrs[name] = CleanOf(name).value
    /\ ~test_handler.value =>
         \A name \in Names(test_handler.fields) :
           test_handler.errors[name]
             = IF name \in FailingFields THEN CleanOf(name).messages ELSE <<>>

\* C19 as the claim states it: field cleaning inside a handler lets no
\* exception escape: for every field type and every raw input, empty and
\* missing values included, _is_valid returns True or False and every
\* failure is recorded as a validation error under the failing field's
\* name
C19_Original ==
  test_handler.stage = "validated" =>
    /\ test_handler.raises = NoExc
    /\ \A name \in FailingFields :
         CleanOf(name).raised = "ValidationError" /\ test_handler.errors[name] # <<>>

\* ----------------------------------------------------------- field copies
\* the value of an attribute of a field object
Attribute(h, field, attribute) ==
  CASE attribute = "validators" -> [t |-> "list", v |-> h.lists[h.fields[field].validators]]
    [] attribute = "error_messages" ->
         [t |-> "dict", v |-> h.dicts[h.fields[field].error_messages]]
    [] attribute = "default" -> [t |-> "value", v |-> h.fields[field].default]
    [] OTHER -> [t |-> "bool", v |-> h.fields[field].required]

\* C20 as the claim states it: each handler instance works on its own copy
\* of the class's fields: no mutable state of a field (validators,
\* error messages, default, required) is shared with the class-level
\* declaration or another instance's copy, so under any interleaving a
\* change a handler makes to a field is visible neither in base_fields nor
\* in another handler: every attribute has its declared value but in the
\* handler that changed it
C20_Original ==
  \A name \in FieldNames, attribute \in FieldAttributes :
    /\ Attribute(heap, ClassField(name), attribute)
         = Attribute(ClassHeap, ClassField(name), attribute)
    /\ \A i \in 1..Len(handlers) :
         <<name, attribute>> \notin handlers[i].changed =>
           Attribute(heap, handlers[i].fields[name], attribute)
             = Attribute(ClassHeap, ClassField(name), attribute)

\* ------------------------------------------------------------ Api registry
\* the names that are keys of a dict of the Api
Keys(dict) == {name \in ResourceNames : dict[name] # None}

\* the last call of api.register
LastRegistered == registered[Len(registered)]

\* C21: each resource name has at most one canonical handler (_canonicals
\* is a dict: it holds one class per name), and
\* registering a handler as canonical under a name that already has a
\* canonical handler completes normally, with a warning only, and makes the
\* new handler both the registry entry and the canonical entry of the name.
C21_Original ==
  /\ \A i \in 1..Len(registered) :
       registered[i].canonical /\ registered[i].replaces
         => /\ registered[i].raises = NoExc
            /\ registered[i].warned
  /\ registered # <<>> /\ LastRegistered.canonical /\ LastRegistered.replaces
       => /\ api._registry[LastRegistered.resource_class.resource_name]
               = LastRegistered.resource_class.class
          /\ api._canonicals[LastRegistered.resource_class.resource_name]
               = LastRegistered.resource_class.class

\* the calls of api.register for this resource name
CallsFor(name) ==
  {i \in 1..Len(registered) : registered[i].resource_class.resource_name = name}

\* the most recent of them
MostRecent(name) ==
  registered[CHOOSE i \in CallsFor(name) : \A j \in CallsFor(name) : j <= i]

\* C30: after any sequence of api.register calls, those that ended in an
\* error included, every name with a canonical handler is a registered
\* name, and the registry entry of a name is the class passed to the most
\* recent register call for that name.
C30_Registry ==
  /\ Keys(api._canonicals) \subseteq Keys(api._registry)
  /\ \A name \in ResourceNames :
       IF CallsFor(name) = {} THEN api._registry[name] = None
       ELSE api._registry[name] = MostRecent(name).resource_class.class

\* a name was registered twice, the last time by a call that ended in an
\* error, and another name is registered without a canonical handler
C30_Witness ==
  /\ Len(registered) = MaxRegistered
  /\ LastRegistered.raises # NoExc
  /\ LastRegistered.resource_class.resource_name # None
  /\ api._registry[LastRegistered.resource_class.resource_name]
       # api._canonicals[LastRegistered.resource_class.resource_name]
  /\ Keys(api._canonicals) # Keys(api._registry)

\* ----------------------------------------------------------- Token records
\* the token the request carries: the query parameter first, else the body
\* parameter (None: it carries none)
Carried(a) ==
  IF a.GET_token \notin {None, ""} THEN a.GET_token
  ELSE IF a.POST_token \notin {None, ""} THEN a.POST_token
  ELSE None

\* the persisted records with the token the request carries
Persisted(a) == {record \in a.table : record.token = Carried(a)}

\* C22: TokenAuthentication accepts a request exactly when it carries a
\* token, a persisted Token record with that value exists and the record's
\* user is active (or require_active is off), and then request.user is that
\* user; a request without token gets the authenticator's own 401 response,
\* an unknown token or an inactive user gives False, and request.user is
\* left unchanged on every rejection.
C22_Original ==
  authenticated.done =>
    LET a == authenticated
        accepted == \E record \in Persisted(a) : ~a.require_active \/ record.is_active
    IN /\ a.raises = NoExc
       /\ a.value = "True" <=> Carried(a) # None /\ accepted
       /\ a.value = "True" => \E record \in Persisted(a) : a.user = record.user
       /\ Carried(a) = None => a.value = "HttpUnauthorized"
       /\ Carried(a) # None /\ ~accepted => a.value = "False"
       /\ a.value # "True" => a.user = AnonymousUser

\* C25: token values are unique among the persisted Token records after any
\* interleaving of concurrent saves, each of which checks for the key and
\* inserts in separate steps; a Token saved with a non-empty token keeps its
\* value.
C25_Original ==
  /\ \A r1, r2 \in token_table : r1.token = r2.token => r1 = r2
  /\ \A i \in 1..Len(saves) :
       saves[i].pc = "saved" /\ saves[i].given # ""
         => \E record \in token_table :
              record.user = saves[i].user /\ record.token = saves[i].given

\* ------------------------------------------------------------ Authorization
\* the safe (read-only) verbs of HTTP
SafeVerbs == {"GET", "HEAD", "OPTIONS"}

\* the response the request ends with when the policy's answer is not True
Refused(a) ==
  /\ a.stage = "raised"
  /\ a.calls = <<"is_authorized">>
  /\ a.raises.has_response
  /\ IF a.auth_result = "HttpResponse"
       THEN a.raises.response = BackendResponse("authorization")
       ELSE Status(a.raises.response) = 401

\* what every policy but the two verb policies does, and what _dispatch does
\* with the answer
DecidesByCaller(a) ==
  /\ a.policy = "Authorization" => a.auth_result = "True"
  /\ a.policy = "AdminAuthorization" => (a.auth_result = "True" <=> a.is_staff)
  /\ a.policy # "custom" => a.auth_result \in {"True", "False"}
  /\ a.auth_result # "True" => Refused(a)
  /\ a.auth_result = "True" => a.stage # "raised" \/ Len(a.calls) > 1

\* C23 as stated: Authorization authorizes every request,
\* ReadOnlyAuthorization exactly the safe verbs, ReadWriteAuthorization
\* exactly the safe verbs and POST, AdminAuthorization exactly the requests
\* of staff users; an answer other than True ends the request with a 401 or
\* the policy's own response before the throttle check and the verb method.
C23_Original ==
  authorized.stage # "none" =>
    /\ DecidesByCaller(authorized)
    /\ authorized.policy = "ReadOnlyAuthorization"
         => (authorized.auth_result = "True" <=> authorized.method \in SafeVerbs)
    /\ authorized.policy = "ReadWriteAuthorization"
         => (authorized.auth_result = "True"
               <=> authorized.method \in SafeVerbs \cup {"POST"})

\* C23, amended: Authorization authorizes every request,
\* ReadOnlyAuthorization exactly the GET requests, ReadWriteAuthorization
\* exactly the GET and the POST requests, AdminAuthorization exactly the
\* requests of staff users; an answer other than True ends the request with
\* a 401 or the policy's own response before the throttle check and the
\* verb method.
C23_Policies ==
  authorized.stage # "none" =>
    /\ DecidesByCaller(authorized)
    /\ authorized.policy = "ReadOnlyAuthorization"
         => (authorized.auth_result = "True" <=> authorized.method = "GET")
    /\ authorized.policy = "ReadWriteAuthorization"
         => (authorized.auth_result = "True" <=> authorized.method \in {"GET", "POST"})

\* a HEAD request is refused by ReadWriteAuthorization with a 401
C23_Witness ==
  /\ authorized.policy = "ReadWriteAuthorization"
  /\ authorized.method = "HEAD"
  /\ Refused(authorized)
  /\ Status(authorized.raises.response) = 401

\* ------------------------------------------------------------ request path
\* the request names, in ?format=, a format the serializer does not have
AsksUnsupported ==
  /\ request.GET_format \notin {Unread, None, ""}
  /\ ~InList(request.GET_format, SerializerFormats)

\* C24: a request whose `format` parameter names a format the serializer
\* does not support fails with an unsupported-format error, distinct from a
\* serialization error; it is not served in another format.
C24_Original ==
  AsksUnsupported /\ desired_format # Unread =>
    /\ serializer_calls = <<>>
    /\ "UnsupportedFormat" \in {exc.type, caught.type}

\* the request passed the method check, authentication, authorization, the
\* throttle check and field validation, and its verb method returned
PassedAndReturned ==
  /\ Len(trace) >= 6
  /\ \A i \in 1..5 : trace[i].call = StageOrder[i] /\ StagePassed(trace[i])
  /\ trace[6].call = "verb"
  /\ VerbRaises(method, trace[6].result) = NoExc

\* C26: throttle.accessed is called exactly once for a request if and only
\* if the request passed the method check, authentication, authorization,
\* the throttle check and field validation and its verb method returned
\* without raising; it is called after the verb method, and never for a
\* request that ended in 405, 401, 429 or 400 or whose verb method raised,
\* a ready-made response included.
C26_AccessedOnce ==
  /\ Len(accessed) <= 1
  /\ pc # "log_access" => (Len(accessed) = 1 <=> PassedAndReturned)
  /\ accessed # <<>> =>
       /\ Len(trace) = 7
       /\ trace[6].call = "verb" /\ trace[7].call = "accessed"
  /\ \A i \in 1..Len(trace) : trace[i].call = "accessed" => accessed # <<>>
  /\ (\E i \in 1..Len(trace) : ~StagePassed(trace[i])) => accessed = <<>>
  /\ (Len(trace) >= 6 /\ VerbRaises(method, trace[6].result) # NoExc) => accessed = <<>>

\* a request went through every stage, its verb method returned and the
\* access was recorded once, after the verb method
C26_Witness ==
  /\ pc = "done"
  /\ PassedAndReturned
  /\ Len(accessed) = 1
  /\ trace[7].call = "accessed"
  /\ Status(response) = 200

\* the request passed every check and _dispatch called the verb method
VerbCalled == Len(trace) >= 6 /\ trace[6].call = "verb"

\* C28: a request with a verb of allowed_methods that passes all checks ends
\* in an HTTP response: the resource's own result when the resource
\* implements the verb, and otherwise a 405 with the Allow header the method
\* check produces; a permitted verb without implementation never makes
\* _dispatch raise an error other than a ready-made response.
C28_Original ==
  VerbCalled /\ method # "override" =>
    /\ pc \in {"except", "done"}
    /\ IF pc = "except" THEN exc.has_response ELSE caught.has_response
    /\ Status(EndingResponse) = 405
    /\ EndingResponse.Allow = _method_check("OPTIONS", meta.allowed_methods).raises.response.Allow

\* ------------------------------------------------------ convert_post_to_put
\* C27: within one request the identifier passed to throttle.accessed
\* equals the one passed to throttle.should_be_throttled, for every verb and
\* every authentication backend, although convert_post_to_put rewrites the
\* request between the two calls and TokenAuthentication reads the token
\* from the request's query or body parameters.
C27_SameIdentifier ==
  rewritten.accessed # <<>> =>
    /\ rewritten.should_be_throttled # <<>>
    /\ rewritten.accessed = rewritten.should_be_throttled

\* a PUT request to a TokenAuthentication resource whose body carries
\* another token than its query string: the conversion put the body's token
\* into request.POST, and both calls got the query string's token
C27_Witness ==
  /\ rewritten.stage = "returned"
  /\ rewritten.backend = "TokenAuthentication"
  /\ rewritten.request.method = "PUT"
  /\ rewritten.request.GET.token = "k1"
  /\ rewritten.request.POST.token = "k2"
  /\ rewritten.accessed = <<"10.0.0.1_nohost_k1">>
  /\ rewritten.should_be_throttled = <<"10.0.0.1_nohost_k1">>

\* field validation has run
Validated == rewritten.stage \in {"verb", "log_access", "returned"}

\* C29: for a PUT request, the raw values field validation reads are the
\* request's body parameters as convert_post_to_put parses them: the data
\* the handler instance was built with is the data the verb method sees on
\* the request after the conversion.
C29_Original ==
  Validated /\ rewritten.request.method = "PUT" =>
    /\ rewritten.handler.post_data = AsData(rewritten.request.POST)
    /\ rewritten.read = _get_raw_value("title", AsData(rewritten.request.GET),
                                       AsData(rewritten.request.POST),
                                       [name \in FieldNames |-> PyNone])
    /\ rewritten.seen # <<>> => AsData(rewritten.seen[1]) = rewritten.handler.post_data

====
